---- MODULE Spec2Model ----
(***************************************************************************)
(* Rich-document renderers of shinano-remix.                               *)
(*                                                                         *)
(* Four renderers read the same persisted TipTap document:                 *)
(*   contentToHtml           feed HTML with inline styles (RSSContainer)   *)
(*   ContentContainer        the React page renderer                       *)
(*   renderPlainArticleHtml  class-free page HTML (article route)          *)
(*   renderRssArticleHtml    inline-styled feed HTML (article feed route)  *)
(*                                                                         *)
(* JavaScript values are tagged records (t = undef, null, num, str, arr,   *)
(* obj).  A JavaScript string is a sequence of pieces [c, src]: c is the   *)
(* text of the piece and src names where its characters come from: "lit"   *)
(* for the program's own template literals, otherwise the document field   *)
(* that supplied them ("text", "href", "code", ...).  Author-supplied      *)
(* strings are one piece per character.  Non-ASCII literals of the source  *)
(* are transliterated: "{no content}" stands for the four-character        *)
(* placeholder text, " ^" for the " (U+2197)" link suffix and "{grave}"   *)
(* for the grave accent.                                                   *)
(*                                                                         *)
(* Seven more parts of the site follow, each with a specification of its   *)
(* own over its own variables, the others staying as they start:           *)
(*   SpecFeeds     the content:encoded element of the two feed routes      *)
(*   SpecViews     trackPageView and the browser storage                   *)
(*   SpecTokens    the unsubscribe tokens, in their JSON and JWT forms     *)
(*   SpecComments  the comment actions of the article and thought routes   *)
(*   SpecNotify    reply notifications, the unsubscribe routes, the profile *)
(*   SpecSwitcher  getLanguageSwitcherLinks                                *)
(*   SpecArticles  the article loader and the premium lock                 *)
(***************************************************************************)
EXTENDS Integers, Sequences, FiniteSets, TLC

VARIABLES doc, feedHtml, plainHtml, rssHtml, textOut, pageDom, hl, first,
          feedIn, feedContent, feedXml,
          now, localStorage, calls, pageViews,
          dateNow, issued, verified,
          requests, comment,
          comments, pages, notices, journal,
          switcherCall, switcherLinks,
          articleRow, articleSession, articleData, articlePage

rendVars == <<doc, feedHtml, plainHtml, rssHtml, textOut, pageDom, hl, first>>
feedVars == <<feedIn, feedContent, feedXml>>
viewVars == <<now, localStorage, calls, pageViews>>
tokenVars == <<dateNow, issued, verified>>
commentVars == <<requests, comment>>
notifyVars == <<comments, pages, notices, journal>>
switcherVars == <<switcherCall, switcherLinks>>
articleVars == <<articleRow, articleSession, articleData, articlePage>>
otherVars == <<feedVars, viewVars, tokenVars, commentVars, notifyVars, switcherVars, articleVars>>
vars == <<rendVars, otherVars>>

----------------------------------------------------------------------------
(* JavaScript values *)

Undef == [t |-> "undef"]
Null == [t |-> "null"]
Num(n) == [t |-> "num", v |-> n]
Str(s) == [t |-> "str", v |-> s]
Arr(a) == [t |-> "arr", v |-> a]
Obj(f) == [t |-> "obj", v |-> f]

Lit(s) == <<[c |-> s, src |-> "lit"]>>
Field(chars, src) == [i \in 1..Len(chars) |-> [c |-> chars[i], src |-> src]]

Nullish(x) == x.t \in {"undef", "null"}
Truthy(x) ==
  CASE x.t \in {"undef", "null"} -> FALSE
    [] x.t = "num" -> x.v # 0
    [] x.t = "str" -> Len(x.v) > 0
    [] OTHER -> TRUE
Prop(x, k) == IF x.t = "obj" /\ k \in DOMAIN x.v THEN x.v[k] ELSE Undef
OptProp(x, k) == IF Nullish(x) THEN Undef ELSE Prop(x, k)
Coalesce(x, d) == IF Nullish(x) THEN d ELSE x
IsStr(x, s) == x.t = "str" /\ x.v = Lit(s)
IsNum(x, n) == x.t = "num" /\ x.v = n
First(x) ==
  CASE Nullish(x) -> Undef
    [] x.t = "arr" -> IF Len(x.v) > 0 THEN x.v[1] ELSE Undef
    [] x.t = "str" -> IF Len(x.v) > 0 THEN Str(<<x.v[1]>>) ELSE Undef
    [] OTHER -> Undef
ToJsString(x) ==
  CASE x.t = "str" -> x.v
    [] x.t = "num" -> <<[c |-> ToString(x.v), src |-> "num"]>>
    [] x.t = "undef" -> Lit("undefined")
    [] x.t = "null" -> Lit("null")
    [] OTHER -> Lit("[object Object]")

(* Results of a call: a string, or an uncaught TypeError *)
Ok(s) == [ok |-> TRUE, v |-> s]
Thrown == [ok |-> FALSE, v |-> <<>>]
Unset == [ok |-> FALSE, v |-> Lit("unset")]

(* The JS string as one string *)
RECURSIVE Flat(_)
Flat(html) == IF Len(html) = 0 THEN "" ELSE html[1].c \o Flat(Tail(html))

RECURSIVE ConcatAll(_)
ConcatAll(rs) ==
  IF Len(rs) = 0 THEN Ok(<<>>)
  ELSE LET h == rs[1]
           t == ConcatAll(Tail(rs))
       IN IF h.ok /\ t.ok THEN Ok(h.v \o t.v) ELSE Thrown
Wrap(pre, r, post) == IF r.ok THEN Ok(pre \o r.v \o post) ELSE Thrown

(* Template literals: <tag attr="value"> is written piece by piece *)
Attr(name, value) == Lit(" " \o name \o "=\"") \o value \o Lit("\"")
Open(tag, attrs) == Lit("<" \o tag) \o attrs \o Lit(">")
Close(tag) == Lit("</" \o tag \o ">")
Style(css) == Attr("style", Lit(css))

ReplaceAll(s, ch, ent) ==
  [i \in 1..Len(s) |-> IF s[i].c = ch THEN [c |-> ent, src |-> s[i].src] ELSE s[i]]

----------------------------------------------------------------------------
(* contentToHtml: src/app/components/RSSContainer.tsx *)

DefaultPrefix == Str(Lit("https://img.darmau.co"))
NoContent == Lit("<p>{no content}</p>")

(* escapeHtml without its last two replacements: quotes pass through *)
escapeHtml_keepQuotes(text) ==
  ReplaceAll(ReplaceAll(ReplaceAll(text, "&", "&amp;"), "<", "&lt;"), ">", "&gt;")

escapeHtml(text) ==
  ReplaceAll(ReplaceAll(ReplaceAll(ReplaceAll(ReplaceAll(text,
    "&", "&amp;"), "<", "&lt;"), ">", "&gt;"), "\"", "&quot;"), "'", "&#039;")

isContentStructure(content) ==
  /\ content.t = "obj"
  /\ "content" \in DOMAIN content.v
  /\ content.v["content"].t = "arr"

renderTextNode_mark(content, mark) ==
  LET ty == Prop(mark, "type")
      attrs == Prop(mark, "attrs")
      href == Coalesce(OptProp(attrs, "href"), Str(Lit("#")))
      target == IF Truthy(OptProp(attrs, "target"))
                THEN Attr("target", ToJsString(OptProp(attrs, "target"))) ELSE <<>>
      rel == IF Truthy(OptProp(attrs, "rel"))
             THEN Attr("rel", ToJsString(OptProp(attrs, "rel"))) ELSE <<>>
  IN CASE IsStr(ty, "link") ->
            Open("a", Attr("href", ToJsString(href)) \o target \o rel
                      \o Style("color: #6d28d9; text-decoration: none;"))
            \o content \o Lit(" ^") \o Close("a")
       [] IsStr(ty, "bold") ->
            Open("strong", Style("font-weight: 500;")) \o content \o Close("strong")
       [] IsStr(ty, "italic") ->
            Open("em", Style("font-style: italic;")) \o content \o Close("em")
       [] IsStr(ty, "strike") ->
            Open("del", Style("text-decoration: line-through; text-decoration-color: #f87171;"))
            \o content \o Close("del")
       [] IsStr(ty, "highlight") ->
            Open("mark", Style("background-color: #fef08a;")) \o content \o Close("mark")
       [] IsStr(ty, "code") ->
            Open("code", Style("font-family: 'Courier New', monospace; padding: 0 0.5rem; background-color: #f3f4f6; border-radius: 0.25rem;"))
            \o content \o Close("code")
       [] OTHER -> content

(* Array.prototype.reverse *)
reverse(a) == [i \in 1..Len(a) |-> a[Len(a) + 1 - i]]

(* const marks = [...node.marks].reverse() with one array behind both names *)
renderTextNode_heapAliased(nodeMarks) ==
  [nodeMarks |-> reverse(nodeMarks), marks |-> reverse(nodeMarks)]

(* const marks = [...node.marks].reverse(): the spread makes a new array   *)
(* and reverse() reverses that array in place; node.marks is another array *)
renderTextNode_heap(nodeMarks) ==
  LET spread == [nodeMarks |-> nodeMarks, marks |-> nodeMarks]
  IN [spread EXCEPT !.marks = reverse(@)]

(* marks.forEach over the reversed copy *)
RECURSIVE renderTextNode_marks(_, _, _)
renderTextNode_marks(content, marks, i) ==
  IF i > Len(marks) THEN Ok(content)
  ELSE IF Nullish(marks[i]) THEN Thrown
  ELSE renderTextNode_marks(renderTextNode_mark(content, marks[i]), marks, i + 1)

renderTextNode(node) ==
  IF IsStr(Prop(node, "type"), "hardBreak") THEN Ok(Lit("<br />"))
  ELSE LET text == Coalesce(Prop(node, "text"), Str(<<>>))
           marks == Prop(node, "marks")
       IN IF text.t # "str" THEN Thrown
          ELSE IF ~Truthy(marks) THEN Ok(escapeHtml(text.v))
          ELSE IF marks.t = "arr"
               THEN renderTextNode_marks(escapeHtml(text.v), renderTextNode_heap(marks.v).marks, 1)
          ELSE IF marks.t = "str" THEN Ok(escapeHtml(text.v))
          ELSE Thrown

renderCodeBlock(node) ==
  LET codeContent == Coalesce(OptProp(First(Prop(node, "content")), "text"), Str(<<>>))
  IN IF codeContent.t # "str" THEN Thrown
     ELSE Ok(Open("pre", Style("background: #1e1e1e; border-radius: 0.75rem; overflow: hidden; padding: 1rem; margin: 1rem 0;"))
             \o Open("code", Style("color: #d4d4d4; font-family: 'Courier New', monospace; white-space: pre-wrap; word-wrap: break-word;"))
             \o ReplaceAll(ReplaceAll(ReplaceAll(ReplaceAll(ReplaceAll(codeContent.v,
                  "&", "&amp;"), "<", "&lt;"), ">", "&gt;"), "\"", "&quot;"), "'", "&#039;")
             \o Close("code") \o Close("pre"))

hasImageAttrs(attrs) ==
  /\ Truthy(attrs)
  /\ Prop(attrs, "id").t \in {"num", "str"}
  /\ Prop(attrs, "storage_key").t = "str"
  /\ Prop(attrs, "prefix").t = "str"

renderImage(node, prefix) ==
  LET attrs == Prop(node, "attrs")
      alt == Prop(attrs, "alt")
      caption == Prop(attrs, "caption")
      imagePrefix == IF Truthy(Prop(attrs, "prefix")) THEN Prop(attrs, "prefix") ELSE prefix
  IN IF ~hasImageAttrs(attrs) THEN Ok(<<>>)
     ELSE IF Truthy(caption) /\ caption.t # "str" THEN Thrown
     ELSE IF Truthy(alt) /\ alt.t # "str" THEN Thrown
     ELSE Ok(Open("figure", Style("margin: 1rem 0;"))
             \o Lit("<img")
             \o Attr("src", ToJsString(imagePrefix)
                            \o Lit("/cdn-cgi/image/format=auto,width=960/")
                            \o ToJsString(Prop(attrs, "storage_key")))
             \o Attr("alt", IF Truthy(alt) THEN escapeHtml(alt.v) ELSE <<>>)
             \o Style("max-width: 100%; height: auto; border-radius: 0.375rem;")
             \o Lit(" />")
             \o (IF Truthy(caption)
                 THEN Open("figcaption", Style("margin-top: 0.5rem; text-align: center; font-size: 0.875rem; color: #6b7280;"))
                      \o escapeHtml(caption.v) \o Close("figcaption")
                 ELSE <<>>)
             \o Close("figure"))

RECURSIVE renderNode(_, _), renderContent(_, _), renderHeading(_, _),
          renderOrderedList(_, _), renderBulletList(_, _), renderList(_, _),
          renderList_item(_, _), renderTable(_, _), renderTableRow(_, _, _)

renderNode(node, prefix) ==
  IF Nullish(node) THEN Thrown
  ELSE LET ty == Prop(node, "type")
       IN CASE IsStr(ty, "paragraph") ->
                 Wrap(Open("p", Style("margin: 1rem 0; color: #27272a; line-height: 2rem;")),
                      renderContent(Prop(node, "content"), prefix), Close("p"))
            [] IsStr(ty, "heading") -> renderHeading(node, prefix)
            [] IsStr(ty, "blockquote") ->
                 Wrap(Open("blockquote", Style("margin: 1rem 0; padding: 0.25rem 0 0.25rem 1rem; border-left: 2px solid #6d28d9; font-size: 1.125rem; font-weight: 500; color: #27272a;")),
                      renderContent(Prop(node, "content"), prefix), Close("blockquote"))
            [] IsStr(ty, "codeBlock") \/ IsStr(ty, "customCodeBlock") -> renderCodeBlock(node)
            [] IsStr(ty, "horizontalRule") ->
                 Ok(Lit("<div style=\"position: relative; margin: 2rem 0;\"><div style=\"position: absolute; inset: 0; display: flex; align-items: center;\"><div style=\"width: 100%; border-top: 1px solid #d1d5db;\"></div></div><div style=\"position: relative; display: flex; justify-content: center;\"><span style=\"background: white; padding: 0 0.5rem; font-size: 0.875rem; color: #6b7280;\">Continue</span></div></div>"))
            [] IsStr(ty, "image") -> renderImage(node, prefix)
            [] IsStr(ty, "table") -> renderTable(Prop(node, "content"), prefix)
            [] IsStr(ty, "orderedList") -> renderOrderedList(node, prefix)
            [] IsStr(ty, "bulletList") -> renderBulletList(Prop(node, "content"), prefix)
            [] OTHER -> Ok(<<>>)

renderHeading(node, prefix) ==
  LET attrs == Prop(node, "attrs")
      level == Coalesce(OptProp(attrs, "level"), Num(2))
      headingId == IF OptProp(attrs, "id").t # "undef"
                   THEN Attr("id", ToJsString(Prop(attrs, "id"))) ELSE <<>>
      body == renderContent(Prop(node, "content"), prefix)
  IN CASE IsNum(level, 2) ->
            Wrap(Open("h2", headingId \o Style("margin-top: 4rem; font-weight: 700; font-size: 1.875rem; color: #27272a;")),
                 body, Close("h2"))
       [] IsNum(level, 3) ->
            Wrap(Open("h3", headingId \o Style("margin-top: 3rem; margin-bottom: 1rem; font-weight: 700; font-size: 1.5rem; color: #374151;")),
                 body, Close("h3"))
       [] IsNum(level, 4) ->
            Wrap(Open("h4", headingId \o Style("margin-top: 2rem; margin-bottom: 1rem; font-weight: 700; font-size: 1.25rem; color: #52525b;")),
                 body, Close("h4"))
       [] OTHER ->
            Wrap(Open("h2", headingId \o Style("margin-bottom: 1rem; font-weight: 700; font-size: 1.875rem; color: #27272a;")),
                 body, Close("h2"))

renderOrderedList(node, prefix) ==
  LET start == Coalesce(OptProp(Prop(node, "attrs"), "start"), Num(1))
  IN Wrap(Open("ol", Attr("start", ToJsString(start))
                     \o Style("list-style-type: decimal; padding-left: 1rem; margin: 1rem 0;")),
          renderList(Prop(node, "content"), prefix), Close("ol"))

renderBulletList(content, prefix) ==
  Wrap(Open("ul", Style("list-style-type: disc; padding-left: 1rem; margin: 1rem 0;")),
       renderList(content, Coalesce(prefix, DefaultPrefix)), Close("ul"))

renderContent(content, prefix) ==
  IF ~Truthy(content) THEN Ok(<<>>)
  ELSE IF content.t # "arr" THEN Thrown
  ELSE LET imagePrefix == Coalesce(prefix, DefaultPrefix)
       IN ConcatAll([i \in 1..Len(content.v) |->
            LET node == content.v[i]
            IN IF Nullish(node) THEN Thrown
               ELSE IF IsStr(Prop(node, "type"), "text") \/ ~Truthy(Prop(node, "type"))
                    THEN renderTextNode(node)
                    ELSE renderNode(node, imagePrefix)])

renderTableRow(row, isHeader, prefix) ==
  LET tag == IF isHeader THEN "th" ELSE "td"
      style == IF isHeader
               THEN "padding: 0.25rem 1rem; text-align: left; font-size: 0.875rem; font-weight: 700; color: #111827;"
               ELSE "padding: 0.25rem 1rem; font-size: 0.875rem; color: #6b7280; white-space: nowrap;"
      cells == Prop(row, "content")
  IN IF Nullish(row) THEN Thrown
     ELSE IF Nullish(cells) THEN Ok(<<>>)
     ELSE IF cells.t # "arr" THEN Thrown
     ELSE ConcatAll([i \in 1..Len(cells.v) |->
            IF Nullish(cells.v[i]) THEN Thrown
            ELSE Wrap(Open(tag, Style(style)),
                      renderContent(Prop(cells.v[i], "content"), prefix), Close(tag))])

renderTable(content, prefix) ==
  IF ~Truthy(content) THEN Ok(<<>>)
  ELSE IF content.t \notin {"arr", "str"} THEN Thrown
  ELSE LET rows == IF content.t = "arr" THEN content.v
                   ELSE [i \in 1..Len(content.v) |-> Str(<<content.v[i]>>)]
           imagePrefix == Coalesce(prefix, DefaultPrefix)
           headerRow == IF Len(rows) > 0 THEN rows[1] ELSE Undef
           bodyRows == IF Len(rows) > 0 THEN Tail(rows) ELSE <<>>
           header == IF Truthy(headerRow)
                     THEN Wrap(Lit("<thead>") \o Lit("<tr>"),
                               renderTableRow(headerRow, TRUE, imagePrefix),
                               Lit("</tr>") \o Lit("</thead>"))
                     ELSE Ok(<<>>)
           body == Wrap(Lit("<tbody>"),
                        ConcatAll([i \in 1..Len(bodyRows) |->
                          Wrap(Lit("<tr") \o Attr("style", Lit("background-color: ")
                                 \o Lit(IF (i - 1) % 2 = 0 THEN "white" ELSE "#f9fafb") \o Lit(";"))
                               \o Lit("}>"),
                               renderTableRow(bodyRows[i], FALSE, imagePrefix), Lit("</tr>"))]),
                        Lit("</tbody>"))
       IN Wrap(Open("table", Style("min-width: 100%; border-collapse: collapse; margin-top: 2rem; border: 1px solid #d1d5db;")),
               ConcatAll(<<header, body>>), Close("table"))

renderList_item(item, prefix) ==
  IF Nullish(item) THEN Thrown
  ELSE IF IsStr(Prop(item, "type"), "listItem") /\ Truthy(Prop(item, "content"))
       THEN IF Prop(item, "content").t # "arr" THEN Thrown
            ELSE Wrap(Lit("<li>"),
                      ConcatAll([j \in 1..Len(Prop(item, "content").v) |->
                                  renderNode(Prop(item, "content").v[j], prefix)]),
                      Lit("</li>"))
       ELSE Ok(Lit("<li>") \o Lit("</li>"))

renderList(content, prefix) ==
  IF ~Truthy(content) THEN Ok(<<>>)
  ELSE IF content.t # "arr" THEN Thrown
  ELSE LET imagePrefix == Coalesce(prefix, DefaultPrefix)
       IN ConcatAll([i \in 1..Len(content.v) |-> renderList_item(content.v[i], imagePrefix)])

(* The document after contentToHtml: each marks array as renderTextNode    *)
(* leaves it (arrays that renderTextNode does not reach are left as they   *)
(* are by the code and by this operator alike)                             *)
RECURSIVE contentToHtml_document(_)
contentToHtml_document(x) ==
  IF x.t = "arr" THEN Arr([i \in 1..Len(x.v) |-> contentToHtml_document(x.v[i])])
  ELSE IF x.t = "obj"
       THEN Obj([k \in DOMAIN x.v |->
                  IF k = "marks" /\ x.v[k].t = "arr"
                  THEN Arr(renderTextNode_heap(x.v[k].v).nodeMarks)
                  ELSE IF k = "content" THEN contentToHtml_document(x.v[k])
                  ELSE x.v[k]])
  ELSE x

(* contentToHtml with the guard reduced to the falsy test *)
contentToHtml_falsyOnly(content, prefix) ==
  IF ~Truthy(content) THEN Ok(NoContent)
  ELSE IF Prop(content, "content").t # "arr" THEN Thrown
  ELSE ConcatAll([i \in 1..Len(content.v["content"].v) |->
                   renderNode(content.v["content"].v[i], prefix)])

contentToHtml(content, prefix) ==
  IF ~Truthy(content) \/ ~isContentStructure(content) THEN Ok(NoContent)
  ELSE ConcatAll([i \in 1..Len(content.v["content"].v) |->
                   renderNode(content.v["content"].v[i], prefix)])

----------------------------------------------------------------------------
(* renderPlainArticleHtml: the article route (src/unnamed/part_011) *)

escapeHtmlTipTap(value) ==
  [i \in 1..Len(value) |->
     [c |-> CASE value[i].c = "&" -> "&amp;"
              [] value[i].c = "<" -> "&lt;"
              [] value[i].c = ">" -> "&gt;"
              [] value[i].c = "\"" -> "&quot;"
              [] value[i].c = "'" -> "&#39;"
              [] value[i].c = "{grave}" -> "&#96;"
              [] OTHER -> value[i].c,
      src |-> value[i].src]]

escapeAttr(value) == escapeHtmlTipTap(value)

RECURSIVE trim(_)
trim(s) ==
  IF Len(s) = 0 THEN s
  ELSE IF s[1].c = " " THEN trim(Tail(s))
  ELSE IF s[Len(s)].c = " " THEN trim(SubSeq(s, 1, Len(s) - 1))
  ELSE s

getHeadingLevel(level) ==
  IF level.t # "num" THEN 2
  ELSE IF level.v < 1 THEN 1
  ELSE IF level.v > 6 THEN 6
  ELSE level.v

(* getTextContent returning nothing for a hardBreak *)
RECURSIVE getTextContent_noBreak(_)
getTextContent_noBreak(children) ==
  IF children.t # "arr" \/ Len(children.v) = 0 THEN <<>>
  ELSE LET part(child) ==
             IF ~Truthy(child) \/ child.t \notin {"obj", "arr"} THEN <<>>
             ELSE IF IsStr(Prop(child, "type"), "text")
                  THEN (IF Nullish(Prop(child, "text")) THEN <<>>
                        ELSE ToJsString(Prop(child, "text")))
             ELSE getTextContent_noBreak(Prop(child, "content"))
       IN ConcatAll([i \in 1..Len(children.v) |-> Ok(part(children.v[i]))]).v

RECURSIVE getTextContent(_)
getTextContent(children) ==
  IF children.t # "arr" \/ Len(children.v) = 0 THEN <<>>
  ELSE LET part(child) ==
             IF ~Truthy(child) \/ child.t \notin {"obj", "arr"} THEN <<>>
             ELSE IF IsStr(Prop(child, "type"), "text")
                  THEN (IF Nullish(Prop(child, "text")) THEN <<>>
                        ELSE ToJsString(Prop(child, "text")))
             ELSE IF IsStr(Prop(child, "type"), "hardBreak") THEN Lit("\n")
             ELSE getTextContent(Prop(child, "content"))
       IN ConcatAll([i \in 1..Len(children.v) |-> Ok(part(children.v[i]))]).v

applyMarks_mark(acc, mark) ==
  LET ty == Prop(mark, "type")
      attrs == Prop(mark, "attrs")
      href == IF OptProp(attrs, "href").t = "str" THEN OptProp(attrs, "href").v ELSE Lit("#")
      targetAttr == IF OptProp(attrs, "target").t = "str"
                    THEN Attr("target", escapeAttr(OptProp(attrs, "target").v)) ELSE <<>>
      relAttr == IF OptProp(attrs, "rel").t = "str"
                 THEN Attr("rel", escapeAttr(OptProp(attrs, "rel").v)) ELSE <<>>
  IN CASE IsStr(ty, "bold") -> Lit("<strong>") \o acc \o Close("strong")
       [] IsStr(ty, "italic") -> Lit("<em>") \o acc \o Close("em")
       [] IsStr(ty, "strike") -> Lit("<del>") \o acc \o Close("del")
       [] IsStr(ty, "code") -> Lit("<code>") \o acc \o Close("code")
       [] IsStr(ty, "highlight") -> Lit("<mark>") \o acc \o Close("mark")
       [] IsStr(ty, "link") ->
            Open("a", Attr("href", escapeAttr(href)) \o targetAttr \o relAttr)
            \o acc \o Close("a")
       [] OTHER -> acc

(* marks.reduce: the marks from the first to the last *)
RECURSIVE applyMarks_reduce(_, _, _)
applyMarks_reduce(acc, marks, i) ==
  IF i > Len(marks) THEN Ok(acc)
  ELSE IF Nullish(marks[i]) THEN Thrown
  ELSE applyMarks_reduce(applyMarks_mark(acc, marks[i]), marks, i + 1)

applyMarks(text, marks) ==
  IF Len(text) = 0 \/ marks.t # "arr" \/ Len(marks.v) = 0 THEN Ok(text)
  ELSE applyMarks_reduce(text, marks.v, 1)

RECURSIVE renderTipTapNode(_), renderChildren(_)

renderChildren(children) ==
  IF children.t # "arr" \/ Len(children.v) = 0 THEN Ok(<<>>)
  ELSE ConcatAll([i \in 1..Len(children.v) |-> renderTipTapNode(children.v[i])])

renderTipTapNode(node) ==
  IF ~Truthy(node) \/ Prop(node, "type").t # "str" THEN Ok(<<>>)
  ELSE LET ty == Prop(node, "type")
           attrs == Prop(node, "attrs")
           kids == Prop(node, "content")
       IN CASE IsStr(ty, "doc") -> renderChildren(kids)
            [] IsStr(ty, "text") ->
                 LET text == Coalesce(Prop(node, "text"), Str(<<>>))
                 IN IF text.t # "str" THEN Thrown
                    ELSE applyMarks(escapeHtmlTipTap(text.v), Prop(node, "marks"))
            [] IsStr(ty, "hardBreak") -> Ok(Lit("<br />"))
            [] IsStr(ty, "paragraph") -> Wrap(Lit("<p>"), renderChildren(kids), Close("p"))
            [] IsStr(ty, "heading") ->
                 LET level == getHeadingLevel(OptProp(attrs, "level"))
                 IN Wrap(Open("h" \o ToString(level), <<>>), renderChildren(kids),
                         Close("h" \o ToString(level)))
            [] IsStr(ty, "blockquote") ->
                 Wrap(Lit("<blockquote>"), renderChildren(kids), Close("blockquote"))
            [] IsStr(ty, "bulletList") -> Wrap(Lit("<ul>"), renderChildren(kids), Close("ul"))
            [] IsStr(ty, "orderedList") ->
                 LET start == IF OptProp(attrs, "start").t = "num" /\ OptProp(attrs, "start").v > 1
                              THEN Attr("start", ToJsString(OptProp(attrs, "start"))) ELSE <<>>
                 IN Wrap(Open("ol", start), renderChildren(kids), Close("ol"))
            [] IsStr(ty, "listItem") -> Wrap(Lit("<li>"), renderChildren(kids), Close("li"))
            [] IsStr(ty, "codeBlock") \/ IsStr(ty, "customCodeBlock") ->
                 LET lang == OptProp(attrs, "language")
                     language == IF lang.t = "str" /\ Len(trim(lang.v)) > 0
                                 THEN Attr("class", Lit("language-") \o escapeAttr(trim(lang.v)))
                                 ELSE <<>>
                     code == escapeHtmlTipTap(getTextContent(kids))
                 IN Ok(Lit("<pre>") \o Open("code", language) \o code
                       \o Close("code") \o Close("pre"))
            [] IsStr(ty, "horizontalRule") -> Ok(Lit("<hr />"))
            [] IsStr(ty, "table") -> Wrap(Lit("<table>"), renderChildren(kids), Close("table"))
            [] IsStr(ty, "tableRow") -> Wrap(Lit("<tr>"), renderChildren(kids), Close("tr"))
            [] IsStr(ty, "tableHeader") -> Wrap(Lit("<th>"), renderChildren(kids), Close("th"))
            [] IsStr(ty, "tableCell") -> Wrap(Lit("<td>"), renderChildren(kids), Close("td"))
            [] IsStr(ty, "image") ->
                 LET altText == IF OptProp(attrs, "alt").t = "str"
                                THEN OptProp(attrs, "alt").v ELSE <<>>
                 IN IF Len(altText) > 0
                    THEN Ok(Lit("<p>") \o escapeHtmlTipTap(altText) \o Close("p"))
                    ELSE Ok(<<>>)
            [] OTHER -> renderChildren(kids)

renderPlainArticleHtml(content) ==
  IF ~Truthy(content) \/ content.t \notin {"obj", "arr"} THEN Ok(<<>>)
  ELSE IF Prop(content, "content").t # "arr" \/ Len(Prop(content, "content").v) = 0
       THEN Ok(<<>>)
  ELSE LET body == renderChildren(Prop(content, "content"))
       IN IF ~body.ok THEN Thrown
          ELSE IF Len(body.v) > 0 THEN Ok(Lit("<article>") \o body.v \o Close("article"))
          ELSE Ok(<<>>)

----------------------------------------------------------------------------
(* renderRssArticleHtml: the article feed route *)

RSS_STYLE_MAP ==
  [article |-> "font-family:'PingFang SC','Hiragino Sans','Microsoft YaHei',sans-serif;margin:0;padding:0;color:#0f172a;line-height:1.75;font-size:16px;background-color:#ffffff;",
   p |-> "margin:0 0 1.25rem;color:#0f172a;line-height:1.8;",
   h1 |-> "margin:2.5rem 0 1.25rem;font-size:2.5rem;line-height:1.2;font-weight:700;color:#0f172a;",
   h2 |-> "margin:2.25rem 0 1rem;font-size:2rem;line-height:1.25;font-weight:700;color:#0f172a;",
   h3 |-> "margin:2rem 0 0.85rem;font-size:1.75rem;line-height:1.3;font-weight:600;color:#0f172a;",
   h4 |-> "margin:1.5rem 0 0.75rem;font-size:1.5rem;line-height:1.35;font-weight:600;color:#0f172a;",
   h5 |-> "margin:1.25rem 0 0.65rem;font-size:1.35rem;line-height:1.3;font-weight:600;color:#0f172a;",
   h6 |-> "margin:1rem 0 0.5rem;font-size:1.1rem;line-height:1.3;font-weight:600;color:#0f172a;text-transform:uppercase;letter-spacing:0.04em;",
   blockquote |-> "margin:1.75rem 0;padding:0.75rem 1rem;border-left:4px solid #c4b5fd;background-color:#f5f3ff;color:#4c1d95;font-style:italic;",
   ul |-> "margin:0 0 1.25rem;padding-left:1.5rem;color:#0f172a;",
   ol |-> "margin:0 0 1.25rem;padding-left:1.5rem;color:#0f172a;",
   li |-> "margin:0.35rem 0;line-height:1.7;color:#0f172a;",
   pre |-> "margin:1.75rem 0;padding:1rem;border-radius:0.85rem;background-color:#0f172a;color:#f8fafc;font-size:0.9rem;line-height:1.6;overflow:auto;",
   code |-> "font-family:'SFMono-Regular','Consolas','Menlo',monospace;background-color:rgba(15,23,42,0.08);padding:0.15rem 0.4rem;border-radius:0.35rem;color:#0f172a;",
   hr |-> "margin:2.5rem 0;border:none;border-bottom:1px solid #e4e4e7;",
   table |-> "width:100%;border-collapse:collapse;margin:2rem 0;font-size:0.95rem;color:#0f172a;",
   tr |-> "border-bottom:1px solid #e4e4e7;",
   th |-> "text-align:left;padding:0.75rem;background-color:#eef2ff;font-weight:600;color:#312e81;",
   td |-> "padding:0.75rem;vertical-align:top;color:#0f172a;",
   a |-> "color:#4f46e5;text-decoration:none;border-bottom:1px solid rgba(79,70,229,0.5);",
   strong |-> "font-weight:700;color:#111827;",
   em |-> "font-style:italic;color:#1f2937;",
   del |-> "color:#94a3b8;text-decoration:line-through;",
   mark |-> "background-color:#fef08a;color:#78350f;padding:0 0.2em;border-radius:0.2em;",
   br |-> "line-height:1.6;"]

getStyleAttr(tag) ==
  IF tag \in DOMAIN RSS_STYLE_MAP THEN Attr("style", Lit(RSS_STYLE_MAP[tag])) ELSE <<>>

applyRssMarks_mark(acc, mark) ==
  LET ty == Prop(mark, "type")
      attrs == Prop(mark, "attrs")
      href == IF OptProp(attrs, "href").t = "str" THEN OptProp(attrs, "href").v ELSE Lit("#")
      targetAttr == IF OptProp(attrs, "target").t = "str"
                    THEN Attr("target", escapeAttr(OptProp(attrs, "target").v)) ELSE <<>>
      relAttr == IF OptProp(attrs, "rel").t = "str"
                 THEN Attr("rel", escapeAttr(OptProp(attrs, "rel").v)) ELSE <<>>
  IN CASE IsStr(ty, "bold") -> Open("strong", getStyleAttr("strong")) \o acc \o Close("strong")
       [] IsStr(ty, "italic") -> Open("em", getStyleAttr("em")) \o acc \o Close("em")
       [] IsStr(ty, "strike") -> Open("del", getStyleAttr("del")) \o acc \o Close("del")
       [] IsStr(ty, "code") -> Open("code", getStyleAttr("code")) \o acc \o Close("code")
       [] IsStr(ty, "highlight") -> Open("mark", getStyleAttr("mark")) \o acc \o Close("mark")
       [] IsStr(ty, "link") ->
            Open("a", Attr("href", escapeAttr(href)) \o getStyleAttr("a")
                      \o targetAttr \o relAttr)
            \o acc \o Close("a")
       [] OTHER -> acc

RECURSIVE applyRssMarks_reduce(_, _, _)
applyRssMarks_reduce(acc, marks, i) ==
  IF i > Len(marks) THEN Ok(acc)
  ELSE IF Nullish(marks[i]) THEN Thrown
  ELSE applyRssMarks_reduce(applyRssMarks_mark(acc, marks[i]), marks, i + 1)

(* applyRssMarks folding from the last mark to the first *)
applyRssMarks_reversed(text, marks) ==
  IF Len(text) = 0 \/ marks.t # "arr" \/ Len(marks.v) = 0 THEN Ok(text)
  ELSE applyRssMarks_reduce(text, [i \in 1..Len(marks.v) |-> marks.v[Len(marks.v) + 1 - i]], 1)

applyRssMarks(text, marks) ==
  IF Len(text) = 0 \/ marks.t # "arr" \/ Len(marks.v) = 0 THEN Ok(text)
  ELSE applyRssMarks_reduce(text, marks.v, 1)

RECURSIVE renderRssTipTapNode(_), renderRssChildren(_)

renderRssChildren(children) ==
  IF children.t # "arr" \/ Len(children.v) = 0 THEN Ok(<<>>)
  ELSE ConcatAll([i \in 1..Len(children.v) |-> renderRssTipTapNode(children.v[i])])

renderRssTipTapNode(node) ==
  IF ~Truthy(node) \/ Prop(node, "type").t # "str" THEN Ok(<<>>)
  ELSE LET ty == Prop(node, "type")
           attrs == Prop(node, "attrs")
           kids == Prop(node, "content")
       IN CASE IsStr(ty, "doc") -> renderRssChildren(kids)
            [] IsStr(ty, "text") ->
                 LET text == Coalesce(Prop(node, "text"), Str(<<>>))
                 IN IF text.t # "str" THEN Thrown
                    ELSE applyRssMarks(escapeHtmlTipTap(text.v), Prop(node, "marks"))
            [] IsStr(ty, "hardBreak") -> Ok(Lit("<br") \o getStyleAttr("br") \o Lit(" />"))
            [] IsStr(ty, "paragraph") ->
                 Wrap(Open("p", getStyleAttr("p")), renderRssChildren(kids), Close("p"))
            [] IsStr(ty, "heading") ->
                 LET level == getHeadingLevel(OptProp(attrs, "level"))
                 IN Wrap(Open("h" \o ToString(level), getStyleAttr("h" \o ToString(level))),
                         renderRssChildren(kids), Close("h" \o ToString(level)))
            [] IsStr(ty, "blockquote") ->
                 Wrap(Open("blockquote", getStyleAttr("blockquote")),
                      renderRssChildren(kids), Close("blockquote"))
            [] IsStr(ty, "bulletList") ->
                 Wrap(Open("ul", getStyleAttr("ul")), renderRssChildren(kids), Close("ul"))
            [] IsStr(ty, "orderedList") ->
                 LET start == IF OptProp(attrs, "start").t = "num" /\ OptProp(attrs, "start").v > 1
                              THEN Attr("start", escapeAttr(ToJsString(OptProp(attrs, "start"))))
                              ELSE <<>>
                 IN Wrap(Open("ol", getStyleAttr("ol") \o start),
                         renderRssChildren(kids), Close("ol"))
            [] IsStr(ty, "listItem") ->
                 Wrap(Open("li", getStyleAttr("li")), renderRssChildren(kids), Close("li"))
            [] IsStr(ty, "codeBlock") \/ IsStr(ty, "customCodeBlock") ->
                 LET lang == OptProp(attrs, "language")
                     language == IF lang.t = "str" /\ Len(trim(lang.v)) > 0
                                 THEN Attr("class", Lit("language-") \o escapeAttr(trim(lang.v)))
                                 ELSE <<>>
                     code == escapeHtmlTipTap(getTextContent(kids))
                 IN Ok(Open("pre", getStyleAttr("pre"))
                       \o Open("code", getStyleAttr("code") \o language) \o code
                       \o Close("code") \o Close("pre"))
            [] IsStr(ty, "horizontalRule") -> Ok(Lit("<hr") \o getStyleAttr("hr") \o Lit(" />"))
            [] IsStr(ty, "table") ->
                 Wrap(Open("table", getStyleAttr("table")), renderRssChildren(kids), Close("table"))
            [] IsStr(ty, "tableRow") ->
                 Wrap(Open("tr", getStyleAttr("tr")), renderRssChildren(kids), Close("tr"))
            [] IsStr(ty, "tableHeader") ->
                 Wrap(Open("th", getStyleAttr("th")), renderRssChildren(kids), Close("th"))
            [] IsStr(ty, "tableCell") ->
                 Wrap(Open("td", getStyleAttr("td")), renderRssChildren(kids), Close("td"))
            [] IsStr(ty, "image") ->
                 LET altText == IF OptProp(attrs, "alt").t = "str"
                                THEN OptProp(attrs, "alt").v ELSE <<>>
                 IN IF Len(altText) > 0
                    THEN Ok(Open("p", getStyleAttr("p")) \o escapeHtmlTipTap(altText) \o Close("p"))
                    ELSE Ok(<<>>)
            [] OTHER -> renderRssChildren(kids)

renderRssArticleHtml(content) ==
  IF ~Truthy(content) \/ content.t \notin {"obj", "arr"} THEN Ok(<<>>)
  ELSE IF Prop(content, "content").t # "arr" \/ Len(Prop(content, "content").v) = 0
       THEN Ok(<<>>)
  ELSE LET body == renderRssChildren(Prop(content, "content"))
       IN IF ~body.ok THEN Thrown
          ELSE IF Len(body.v) > 0
               THEN Ok(Open("article", getStyleAttr("article")) \o body.v \o Close("article"))
          ELSE Ok(<<>>)

----------------------------------------------------------------------------
(* ContentContainer: the React page renderer (src/unnamed/part_004).        *)
(* The value of a component is the HTML serialisation of what it renders.   *)
(* React escapes text children and attribute values; only                   *)
(* dangerouslySetInnerHTML inserts a string as it is.                       *)

reactEscape(text) ==
  [i \in 1..Len(text) |->
     [c |-> CASE text[i].c = "&" -> "&amp;"
              [] text[i].c = "<" -> "&lt;"
              [] text[i].c = ">" -> "&gt;"
              [] text[i].c = "\"" -> "&quot;"
              [] text[i].c = "'" -> "&#x27;"
              [] OTHER -> text[i].c,
      src |-> text[i].src]]

(* {value} as a React child *)
reactChild(value) ==
  CASE Nullish(value) -> Ok(<<>>)
    [] value.t \in {"str", "num"} -> Ok(reactEscape(ToJsString(value)))
    [] OTHER -> Thrown

(* name={value} on a DOM element *)
reactAttr(name, value) ==
  IF Nullish(value) THEN <<>> ELSE Attr(name, reactEscape(ToJsString(value)))

(* content?.map(item => ...): the items mapped over, and the joined result *)
Items(content) == IF content.t = "arr" THEN content.v ELSE <<>>
OptMap(content, mapped) ==
  IF Nullish(content) THEN Ok(<<>>)
  ELSE IF content.t # "arr" THEN Thrown
  ELSE ConcatAll(mapped)

(* hljs.highlight(codeContent, {language}): the languages the library has *)
hljsLanguages == {"js"}
hljsKnows(language) == language.t = "str" /\ Flat(language.v) \in hljsLanguages
hljsHighlight(codeContent) ==
  Lit("<span class=\"hljs\">") \o reactEscape(ToJsString(codeContent)) \o Lit("</span>")

CodeBlockProps(node) ==
  [language |-> Coalesce(OptProp(Prop(node, "attrs"), "language"), Str(<<>>)),
   codeContent |-> Coalesce(OptProp(First(Prop(node, "content")), "text"), Str(<<>>))]

TextNode_mark(content, mark) ==
  LET ty == Prop(mark, "type")
      attrs == Prop(mark, "attrs")
  IN CASE IsStr(ty, "link") ->
            Open("a", Attr("class", Lit("text-violet-700 after:content-['_^'] hover:underline hover:decoration-2 hover:underline-offset-4"))
                      \o reactAttr("href", OptProp(attrs, "href"))
                      \o reactAttr("target", OptProp(attrs, "target"))
                      \o reactAttr("rel", OptProp(attrs, "rel")))
            \o content \o Close("a")
       [] IsStr(ty, "bold") ->
            Open("strong", Attr("class", Lit("font-medium"))) \o content \o Close("strong")
       [] IsStr(ty, "italic") ->
            Open("em", Attr("class", Lit("italic"))) \o content \o Close("em")
       [] IsStr(ty, "strike") ->
            Open("del", Attr("class", Lit("line-through decoration-red-400")))
            \o content \o Close("del")
       [] IsStr(ty, "highlight") ->
            Open("mark", Attr("class", Lit("bg-yellow-300"))) \o content \o Close("mark")
       [] IsStr(ty, "code") ->
            Open("code", Attr("class", Lit("font-mono px-2"))) \o content \o Close("code")
       [] IsStr(ty, "superscript") ->
            Open("sup", Attr("class", Lit("text-sm"))) \o content \o Close("sup")
       [] OTHER -> content

(* node.marks.forEach: the marks from the first to the last *)
RECURSIVE TextNode_marks(_, _, _)
TextNode_marks(content, marks, i) ==
  IF i > Len(marks) THEN Ok(content)
  ELSE IF Nullish(marks[i]) THEN Thrown
  ELSE TextNode_marks(TextNode_mark(content, marks[i]), marks, i + 1)

TextNode(node) ==
  IF Nullish(node) THEN Thrown
  ELSE IF IsStr(Prop(node, "type"), "hardBreak") THEN Ok(Lit("<br/>"))
  ELSE LET content == reactChild(Prop(node, "text"))
           marks == Prop(node, "marks")
       IN IF ~content.ok THEN Thrown
          ELSE IF ~Truthy(marks) THEN content
          ELSE IF marks.t # "arr" THEN Thrown
          ELSE TextNode_marks(content.v, marks.v, 1)

Paragraph(content) ==
  Wrap(Open("p", Attr("class", Lit("my-4 text-zinc-800 leading-8"))),
       OptMap(content, [i \in 1..Len(Items(content)) |-> TextNode(Items(content)[i])]), Close("p"))

Heading(attrs, content) ==
  LET headingId == IF OptProp(attrs, "id").t # "undef"
                   THEN Attr("id", reactEscape(ToJsString(Prop(attrs, "id")))) ELSE <<>>
      level == OptProp(attrs, "level")
      body == OptMap(content, [i \in 1..Len(Items(content)) |-> TextNode(Items(content)[i])])
  IN CASE IsNum(level, 2) ->
            Wrap(Open("h2", Attr("class", Lit("mt-16 font-bold text-3xl text-zinc-800")) \o headingId),
                 body, Close("h2"))
       [] IsNum(level, 3) ->
            Wrap(Open("h3", Attr("class", Lit("mt-12 mb-4 font-bold text-2xl text-zinc-700")) \o headingId),
                 body, Close("h3"))
       [] IsNum(level, 4) ->
            Wrap(Open("h4", Attr("class", Lit("mt-8 mb-4 font-bold text-xl text-zinc-600")) \o headingId),
                 body, Close("h4"))
       [] OTHER ->
            Wrap(Open("h2", Attr("class", Lit("mb-4 font-bold text-3xl text-zinc-800")) \o headingId),
                 body, Close("h2"))

CodeBlock(attrs, content, hlState) ==
  LET language == Coalesce(OptProp(attrs, "language"), Str(<<>>))
      codeContent == Coalesce(OptProp(First(content), "text"), Str(<<>>))
      key == [language |-> language, codeContent |-> codeContent]
      isLoading == IF key \in DOMAIN hlState THEN hlState[key].isLoading ELSE TRUE
      highlightedCode == IF key \in DOMAIN hlState THEN hlState[key].highlightedCode ELSE <<>>
      className == Attr("class", IF Truthy(language)
                                 THEN Lit("language-") \o reactEscape(ToJsString(language))
                                 ELSE <<>>)
  IN IF ~reactChild(language).ok \/ (isLoading /\ ~reactChild(codeContent).ok) THEN Thrown
     ELSE Ok(Open("pre", Attr("class", Lit("hljs rounded-xl overflow-hidden p-4")))
             \o Lit("<div class=\"flex justify-between mb-2\"><span class=\"flex items-center gap-1\"><span class=\"w-3 h-3 rounded-full bg-red-500\"></span><span class=\"w-3 h-3 rounded-full bg-yellow-500\"></span><span class=\"w-3 h-3 rounded-full bg-green-500\"></span></span>")
             \o Lit("<p>") \o reactChild(language).v \o Lit("</p>") \o Lit("</div>")
             \o Open("code", className)
             \o (IF isLoading THEN reactChild(codeContent).v ELSE highlightedCode)
             \o Close("code") \o Close("pre"))

Horizental ==
  Lit("<div class=\"relative my-8\"><div aria-hidden=\"true\" class=\"absolute inset-0 flex items-center\"><div class=\"w-full border-t border-gray-300\"></div></div><div class=\"relative flex justify-center\"><span class=\"bg-white px-2 text-sm text-gray-500\">Continue</span></div></div>")

(* ArticleImage is imported from ~/components/ArticleImage *)
Image(attrs) ==
  Lit("<figure>") \o Lit("<img")
  \o Attr("src", reactEscape(ToJsString(Prop(attrs, "prefix")))
                 \o Lit("/cdn-cgi/image/format=auto,width=960/")
                 \o reactEscape(ToJsString(Prop(attrs, "storage_key"))))
  \o reactAttr("alt", Prop(attrs, "alt")) \o Lit("/>")
  \o (IF Truthy(Prop(attrs, "caption"))
      THEN Lit("<figcaption>") \o reactEscape(ToJsString(Prop(attrs, "caption")))
           \o Lit("</figcaption>")
      ELSE <<>>)
  \o Lit("</figure>")

Iframe(attrs) ==
  IF Nullish(attrs) THEN Thrown
  ELSE Ok(Open("div", Attr("class", Lit("iframe-container")))
          \o (IF Nullish(Prop(attrs, "code")) THEN <<>> ELSE ToJsString(Prop(attrs, "code")))
          \o Close("div"))

RECURSIVE Node(_, _), Blockquote(_, _), Table(_, _), Table_cell(_, _, _),
          BulletList(_, _), OrderedList(_, _, _), List_item(_, _)

Node(node, hlState) ==
  IF Nullish(node) THEN Thrown
  ELSE LET ty == Prop(node, "type")
           attrs == Prop(node, "attrs")
           content == Prop(node, "content")
       IN CASE IsStr(ty, "paragraph") -> Paragraph(content)
            [] IsStr(ty, "heading") -> Heading(attrs, content)
            [] IsStr(ty, "blockquote") -> Blockquote(content, hlState)
            [] IsStr(ty, "customCodeBlock") -> CodeBlock(attrs, content, hlState)
            [] IsStr(ty, "codeBlock") -> CodeBlock(attrs, content, hlState)
            [] IsStr(ty, "horizontalRule") -> Ok(Horizental)
            [] IsStr(ty, "image") -> IF hasImageAttrs(attrs) THEN Ok(Image(attrs)) ELSE Ok(<<>>)
            [] IsStr(ty, "table") -> Table(content, hlState)
            [] IsStr(ty, "bulletList") -> BulletList(content, hlState)
            [] IsStr(ty, "orderedList") -> OrderedList(attrs, content, hlState)
            [] IsStr(ty, "embed") -> Iframe(attrs)
            [] OTHER -> Ok(<<>>)

Blockquote(content, hlState) ==
  Wrap(Open("blockquote", Attr("class", Lit("my-4 py-1 pl-4 border-l-2 border-violet-800 text-lg font-medium"))),
       OptMap(content, [i \in 1..Len(Items(content)) |-> Node(Items(content)[i], hlState)]), Close("blockquote"))

Table_cell(cell, isHeader, hlState) ==
  IF Nullish(cell) THEN Thrown
  ELSE IF isHeader
       THEN Wrap(Open("th", Attr("scope", Lit("col"))
                            \o Attr("class", Lit("px-4 py-1 text-left text-sm font-bold text-gray-900"))),
                 Node(First(Prop(cell, "content")), hlState), Close("th"))
       ELSE Wrap(Open("td", Attr("class", Lit("whitespace-nowrap px-4 py-1 text-sm text-gray-500"))),
                 Node(First(Prop(cell, "content")), hlState), Close("td"))

Table(content, hlState) ==
  IF ~Nullish(content) /\ content.t # "arr" THEN Thrown
  ELSE LET headerRow == First(content)
           bodyRows == IF Nullish(content) \/ Len(content.v) = 0 THEN <<>> ELSE Tail(content.v)
           header == IF Truthy(headerRow)
                     THEN Wrap(Lit("<tr>"),
                               OptMap(Prop(headerRow, "content"),
                                      [j \in 1..Len(Items(Prop(headerRow, "content"))) |->
                                         Table_cell(Items(Prop(headerRow, "content"))[j], TRUE, hlState)]),
                               Lit("</tr>"))
                     ELSE Ok(<<>>)
           body == ConcatAll([i \in 1..Len(bodyRows) |->
                     IF Nullish(bodyRows[i]) THEN Thrown
                     ELSE Wrap(Open("tr", Attr("class", Lit("even:bg-gray-50"))),
                               OptMap(Prop(bodyRows[i], "content"),
                                      [j \in 1..Len(Items(Prop(bodyRows[i], "content"))) |->
                                         Table_cell(Items(Prop(bodyRows[i], "content"))[j], FALSE, hlState)]),
                               Lit("</tr>"))])
       IN Wrap(Open("table", Attr("class", Lit("min-w-full divide-y divide-gray-300 mt-8 border border-gray-300"))),
               ConcatAll(<<Wrap(Lit("<thead>"), header, Lit("</thead>")),
                           Wrap(Lit("<tbody>"), body, Lit("</tbody>"))>>),
               Close("table"))

List_item(item, hlState) ==
  IF Nullish(item) THEN Thrown
  ELSE Wrap(Lit("<li>"),
            OptMap(Prop(item, "content"), [i \in 1..Len(Items(Prop(item, "content"))) |-> Node(Items(Prop(item, "content"))[i], hlState)]),
            Lit("</li>"))

BulletList(content, hlState) ==
  Wrap(Open("ul", Attr("class", Lit("list-disc pl-4"))),
       OptMap(content, [i \in 1..Len(Items(content)) |-> List_item(Items(content)[i], hlState)]), Close("ul"))

OrderedList(attrs, content, hlState) ==
  Wrap(Open("ol", reactAttr("start", OptProp(attrs, "start"))
                  \o Attr("class", Lit("list-decimal pl-4"))),
       OptMap(content, [i \in 1..Len(Items(content)) |-> List_item(Items(content)[i], hlState)]), Close("ol"))

ContentContainer(content, hlState) ==
  IF ~Truthy(content) \/ ~isContentStructure(content)
  THEN Ok(Lit("<div>") \o NoContent \o Lit("</div>"))
  ELSE OptMap(content.v["content"], [i \in 1..Len(Items(content.v["content"])) |-> Node(Items(content.v["content"])[i], hlState)])

(* The CodeBlock components a rendering of the node mounts, by their props *)
RECURSIVE MountedCodeBlocks(_)
MountedCodeBlocks(node) ==
  LET ty == Prop(node, "type")
      content == Prop(node, "content")
      each(seq) == UNION {MountedCodeBlocks(seq[i]) : i \in 1..Len(seq)}
  IN IF Nullish(node) THEN {}
     ELSE IF IsStr(ty, "codeBlock") \/ IsStr(ty, "customCodeBlock") THEN {CodeBlockProps(node)}
     ELSE IF content.t # "arr" THEN {}
     ELSE IF IsStr(ty, "blockquote") THEN each(content.v)
     ELSE IF IsStr(ty, "bulletList") \/ IsStr(ty, "orderedList")
          THEN UNION {IF Prop(content.v[i], "content").t = "arr"
                      THEN each(Prop(content.v[i], "content").v) ELSE {} : i \in 1..Len(content.v)}
     ELSE {}

----------------------------------------------------------------------------
(* The feeds: src/app/routes/$lang.[rss.xml].tsx and the article feed route. *)
(* Of a feed only the content:encoded element of one item is kept.  The      *)
(* characters ] and > are one piece each, in literals too, so that the       *)
(* three characters that end a CDATA section can be found across pieces; no  *)
(* other literal piece of the feeds or of renderRssArticleHtml holds a ].    *)

CdataStart == Lit("<![CDATA[")
CdataEnd == Field(<<"]", "]", ">">>, "lit")

(* normalizeCdata without the replacement *)
normalizeCdata_asIs(value) ==
  IF ~Truthy(value) THEN <<>> ELSE value.v

(* value.replace(/]]>/g, "]]]]><![CDATA[>") *)
RECURSIVE normalizeCdata_replace(_)
normalizeCdata_replace(s) ==
  IF Len(s) < 3 THEN s
  ELSE IF s[1].c = "]" /\ s[2].c = "]" /\ s[3].c = ">"
       THEN Field(<<"]", "]">>, "lit") \o CdataEnd \o CdataStart \o Field(<<">">>, "lit")
            \o normalizeCdata_replace(SubSeq(s, 4, Len(s)))
  ELSE <<s[1]>> \o normalizeCdata_replace(Tail(s))

normalizeCdata(value) ==
  IF ~Truthy(value) THEN <<>> ELSE normalizeCdata_replace(value.v)

shouldRenderContent(content) ==
  Truthy(content) /\ Len(trim(content.v)) > 0

(* generateRss of the site feed: the content:encoded element of an entry *)
generateRss(entry) ==
  IF shouldRenderContent(entry.content)
  THEN Lit("<content:encoded>") \o CdataStart \o normalizeCdata(entry.content)
       \o CdataEnd \o Lit("</content:encoded>")
  ELSE <<>>

(* The entries the site feed's loader builds from the rows it selects *)
articleEntry(article) ==
  LET summary == Coalesce(Coalesce(article.abstract, article.subtitle), Str(<<>>))
  IN [content |-> IF Truthy(summary)
                  THEN Str(Lit("<p>") \o summary.v \o Lit("</p>")) ELSE Str(<<>>)]

photoEntry(photo) ==
  LET baseDescription == Coalesce(Coalesce(photo.abstract, photo.title), Str(<<>>))
      coverHtml == IF Truthy(photo.cover)
                   THEN Lit("<p><img src=\"") \o Lit("https://img.darmau.co")
                        \o Lit("/cdn-cgi/image/format=jpeg,width=1280/")
                        \o ToJsString(Prop(photo.cover, "storage_key"))
                        \o Lit("\" alt=\"")
                        \o normalizeCdata(Coalesce(Coalesce(Prop(photo.cover, "alt"), photo.title),
                                                   Str(<<>>)))
                        \o Lit("\" /></p>")
                   ELSE <<>>
      body == (IF Truthy(baseDescription)
               THEN Lit("<p>") \o baseDescription.v \o Lit("</p>") ELSE <<>>)
              \o coverHtml
              \o (IF Truthy(photo.content_text)
                  THEN Lit("<div>") \o photo.content_text.v \o Lit("</div>") ELSE <<>>)
  IN [content |-> Str(body)]

thoughtEntry(thought) ==
  [content |-> IF Truthy(thought.content_text)
               THEN Str(Lit("<p>") \o thought.content_text.v \o Lit("</p>")) ELSE Str(<<>>)]

(* generateRss of the article feed: the content:encoded element of an entry *)
generateRss_article(entry) ==
  Lit("<content:encoded>") \o Lit(" ") \o CdataStart \o ToJsString(entry.content)
  \o CdataEnd \o Lit(" ") \o Lit("</content:encoded>")

(* The entry the article feed's loader builds from a post *)
postEntry(post) ==
  LET summary == Coalesce(Coalesce(post.abstract, post.subtitle), Str(<<>>))
      fullContent == renderRssArticleHtml(post.content_json)
      fallbackContent == IF Truthy(summary)
                         THEN Open("p", getStyleAttr("p")) \o escapeHtmlTipTap(summary.v)
                              \o Close("p")
                         ELSE <<>>
  IN IF ~fullContent.ok THEN Thrown
     ELSE Ok(IF Len(fullContent.v) > 0 THEN fullContent.v ELSE fallbackContent)

----------------------------------------------------------------------------
(* The documents the renderers are given: TipTap JSON as the editor stores  *)
(* it, and JSON values that are not documents.                              *)

MaxTextLen == 2
MaxMarks == 2
MaxAttrLen == 1
MaxRows == 3
MaxLevel == 7
MaxStart == 3

Special == {"&", "<", ">", "\"", "'"}
Chars == Special \cup {"a"}
Strings(n) == UNION {[1..k -> Chars] : k \in 0..n}
SampleText == <<"&", "<", ">", "\"", "'", "a">>

T(type) == Str(Lit(type))
WithOpt(rec, k, v) == IF v = Undef THEN rec ELSE rec @@ (k :> v)
Elem(type, attrs, content) ==
  Obj(WithOpt(WithOpt([type |-> T(type)], "attrs", attrs), "content", content))
Text(chars, marks) ==
  Obj(WithOpt([type |-> T("text"), text |-> Str(Field(chars, "text"))], "marks", marks))
Para(chars) == Elem("paragraph", Undef, Arr(<<Text(chars, Undef)>>))
DocOf(blocks) == Obj([type |-> T("doc"), content |-> Arr(blocks)])
AttrStr(chars, field) == Str(Field(chars, field))

MarkKinds == {"bold", "italic", "strike", "code", "highlight", "superscript", "underline"}
PlainMarks == {Obj([type |-> T(k)]) : k \in MarkKinds}
LinkMark(href, target, rel) ==
  Obj([type |-> T("link"),
       attrs |-> Obj(WithOpt(WithOpt(WithOpt(<<>>, "href", href), "target", target), "rel", rel))])
MarkLists ==
  UNION {[1..k -> PlainMarks \cup {LinkMark(AttrStr(<<"a">>, "href"), Undef, Undef)}] :
           k \in 0..MaxMarks}

TextDocs ==
  {DocOf(<<Elem("paragraph", Undef, Arr(<<Text(s, m)>>))>>) :
     s \in Strings(MaxTextLen), m \in {Undef, Arr(<<Obj([type |-> T("bold")])>>)}}

MarkDocs ==
  {DocOf(<<Elem("paragraph", Undef, Arr(<<Text(<<"a", "<">>, Arr(ms))>>))>>) : ms \in MarkLists}

AttrValues(field) == {AttrStr(s, field) : s \in Strings(MaxAttrLen)}
LinkMarks ==
  {LinkMark(h, Undef, Undef) : h \in AttrValues("href") \cup {Undef}}
  \cup {LinkMark(AttrStr(<<"a">>, "href"), t, Undef) : t \in AttrValues("target")}
  \cup {LinkMark(AttrStr(<<"a">>, "href"), Undef, r) : r \in AttrValues("rel")}
  \cup {Obj([type |-> T("link")])}
LinkDocs ==
  {DocOf(<<Elem("paragraph", Undef, Arr(<<Text(<<"a">>, Arr(<<m>>))>>))>>) : m \in LinkMarks}

Levels == {Undef, Num(99), Str(Lit("2"))} \cup {Num(n) : n \in 0..MaxLevel}
HeadingDocs ==
  {DocOf(<<Elem("heading", Obj(WithOpt(WithOpt(<<>>, "level", l), "id", i)),
                Arr(<<Text(SampleText, Undef)>>))>>) :
     l \in Levels, i \in {Undef, AttrStr(<<"x">>, "id")}}
  \cup {DocOf(<<Elem("heading", Undef, Arr(<<Text(SampleText, Undef)>>))>>)}

Languages ==
  {Undef, AttrStr(<<"j", "s">>, "language"), AttrStr(<<" ", "j", "s", " ">>, "language"),
   AttrStr(<<" ">>, "language"), AttrStr(<<"p", "y">>, "language")}
  \cup (AttrValues("language") \ {AttrStr(<<>>, "language")})
CodeDocs ==
  {DocOf(<<Elem(ty, IF l = Undef THEN Undef ELSE Obj([language |-> l]),
                Arr(<<Text(s, Undef)>>))>>) :
     ty \in {"codeBlock"}, l \in Languages, s \in Strings(MaxAttrLen)}
  \cup {DocOf(<<Elem("customCodeBlock", Obj([language |-> AttrStr(<<"j", "s">>, "language")]),
                     Arr(<<Text(SampleText, Undef), Elem("hardBreak", Undef, Undef),
                           Text(<<"a">>, Undef)>>))>>),
        DocOf(<<Elem("codeBlock", Undef, Undef)>>),
        DocOf(<<Elem("blockquote", Undef,
                     Arr(<<Elem("codeBlock", Undef, Arr(<<Text(<<"<">>, Undef)>>))>>))>>)}

(* A table row: its declared type, and the declared type of its cells *)
RowShapes == {<<"tableRow", "tableHeader">>, <<"tableRow", "tableCell">>, <<"row", "cell">>}
Cell(type, chars) == Elem(type, Undef, Arr(<<Para(chars)>>))
Row(shape, i) ==
  Elem(shape[1], Undef, Arr(<<Cell(shape[2], <<ToString(i)>>), Cell(shape[2], <<"<">>)>>))
TableDocs ==
  {DocOf(<<Elem("table", Undef, Arr([i \in 1..Len(shapes) |-> Row(shapes[i], i)]))>>) :
     shapes \in UNION {[1..n -> RowShapes] : n \in 0..MaxRows}}

Starts == {Undef, Str(Lit("5"))} \cup {Num(n) : n \in 0..MaxStart}
Item(type, chars) == Elem(type, Undef, Arr(<<Para(chars)>>))
ListDocs ==
  {DocOf(<<Elem("orderedList", IF st = Undef THEN Undef ELSE Obj([start |-> st]),
                Arr(<<Item(it, SampleText), Item("listItem", <<"a">>)>>))>>) :
     st \in Starts, it \in {"listItem", "item"}}
  \cup {DocOf(<<Elem("bulletList", Undef, Arr(<<Item(it, SampleText)>>))>>) :
          it \in {"listItem", "item"}}
  \cup {DocOf(<<Elem("orderedList", Obj(<<>>), Undef)>>),
        DocOf(<<Elem("bulletList", Undef, Arr(<<Elem("listItem", Undef, Undef)>>))>>)}

ImageAttrs(id, alt, key, prefix, caption) ==
  Obj(WithOpt(WithOpt(WithOpt(WithOpt(WithOpt(<<>>, "id", id), "alt", alt),
                              "storage_key", key), "prefix", prefix), "caption", caption))
ImageDocs ==
  {DocOf(<<Elem("image", ImageAttrs(Num(1), alt, key, prefix, caption), Undef)>>) :
     alt \in {Undef, Null, AttrStr(<<"a", "\"">>, "alt")},
     key \in {Undef, AttrStr(<<"k">>, "storage_key")},
     prefix \in {Undef, AttrStr(<<"p">>, "prefix")},
     caption \in {Undef, AttrStr(<<"<">>, "caption")}}
  \cup {DocOf(<<Elem("image", Undef, Undef)>>)}

OtherDocs ==
  {DocOf(<<Elem("horizontalRule", Undef, Undef)>>),
   DocOf(<<Elem("paragraph", Undef, Undef)>>),
   DocOf(<<Elem("paragraph", Undef,
                Arr(<<Text(<<"a">>, Undef), Elem("hardBreak", Undef, Undef),
                      Text(<<"<">>, Undef)>>))>>),
   DocOf(<<Elem("paragraph", Undef,
                Arr(<<Text(<<"a">>, Arr(<<Obj([type |-> T("bold")])>>)),
                      Elem("hardBreak", Undef, Undef), Text(<<"b">>, Undef)>>))>>),
   DocOf(<<Elem("hardBreak", Undef, Undef)>>),
   DocOf(<<Text(SampleText, Undef)>>),
   DocOf(<<Elem("blockquote", Undef, Arr(<<Para(SampleText)>>))>>),
   DocOf(<<Elem("blockquote", Undef, Arr(<<Text(SampleText, Undef)>>))>>),
   DocOf(<<Elem("embed", Obj([code |-> AttrStr(<<"<", "a", ">">>, "code")]), Undef)>>),
   DocOf(<<Elem("embed", Obj(<<>>), Undef)>>),
   DocOf(<<Elem("callout", Undef, Arr(<<Para(SampleText)>>))>>),
   DocOf(<<Elem("callout", Undef, Undef)>>),
   DocOf(<<Elem("doc", Undef, Arr(<<Para(SampleText)>>))>>),
   DocOf(<<Elem("listItem", Undef, Arr(<<Para(SampleText)>>))>>),
   DocOf(<<Para(<<"a">>), Elem("heading", Obj([level |-> Num(3)]), Arr(<<Text(<<"&">>, Undef)>>)),
           Elem("horizontalRule", Undef, Undef), Para(<<"'">>)>>),
   DocOf(<<>>)}

(* JSON values that are not documents, and documents with malformed nodes *)
NotDocs ==
  {Null, Num(0), Num(5), Str(<<>>), Str(Field(<<"a">>, "text")), Arr(<<>>), Arr(<<Null>>),
   Obj(<<>>), Obj([type |-> T("doc")]),
   Obj([content |-> Str(Lit("not-an-array"))]), Obj([content |-> Null]),
   Obj([content |-> Num(1)]), Obj([content |-> Obj(<<>>)])}

MalformedDocs ==
  {DocOf(<<Null>>), DocOf(<<Num(5)>>), DocOf(<<Str(Field(<<"a">>, "text"))>>),
   DocOf(<<Obj(<<>>)>>), DocOf(<<Obj([type |-> Num(1)])>>),
   DocOf(<<Elem("paragraph", Undef, Arr(<<Null>>))>>),
   DocOf(<<Elem("paragraph", Undef, Str(Lit("x")))>>),
   DocOf(<<Elem("paragraph", Undef,
                Arr(<<Obj([type |-> T("text"), text |-> Num(5)])>>))>>),
   DocOf(<<Elem("paragraph", Undef,
                Arr(<<Obj([type |-> T("text"), text |-> Null])>>))>>),
   DocOf(<<Elem("paragraph", Undef, Arr(<<Text(<<"a">>, Arr(<<Null>>))>>))>>),
   DocOf(<<Elem("paragraph", Undef, Arr(<<Text(<<"a">>, Num(1))>>))>>),
   DocOf(<<Elem("paragraph", Undef, Arr(<<Text(<<"a">>, Arr(<<Num(1)>>))>>))>>),
   DocOf(<<Elem("paragraph", Undef,
                Arr(<<Text(<<"a">>, Arr(<<Obj([type |-> T("link"), attrs |-> Null])>>))>>))>>),
   DocOf(<<Elem("heading", Null, Arr(<<Text(<<"a">>, Undef)>>))>>),
   DocOf(<<Elem("codeBlock", Undef, Arr(<<Obj([type |-> T("text"), text |-> Num(5)])>>))>>),
   DocOf(<<Elem("codeBlock", Undef, Arr(<<Null>>))>>),
   DocOf(<<Elem("table", Undef, Undef)>>),
   DocOf(<<Elem("table", Undef, Arr(<<Null>>))>>),
   DocOf(<<Elem("table", Undef, Arr(<<Row(<<"tableRow", "tableCell">>, 1), Null>>))>>),
   DocOf(<<Elem("table", Undef, Arr(<<Elem("tableRow", Undef, Undef)>>))>>),
   DocOf(<<Elem("table", Undef, Arr(<<Elem("tableRow", Undef, Arr(<<Null>>))>>))>>),
   DocOf(<<Elem("table", Undef,
                Arr(<<Elem("tableRow", Undef, Arr(<<Elem("tableCell", Undef, Undef)>>))>>))>>),
   DocOf(<<Elem("bulletList", Undef, Arr(<<Null>>))>>),
   DocOf(<<Elem("bulletList", Undef, Num(3))>>),
   DocOf(<<Elem("orderedList", Undef,
                Arr(<<Elem("listItem", Undef, Arr(<<Null>>))>>))>>),
   DocOf(<<Elem("image", ImageAttrs(Num(1), Num(2), AttrStr(<<"k">>, "storage_key"),
                                    AttrStr(<<"p">>, "prefix"), Undef), Undef)>>),
   DocOf(<<Elem("embed", Undef, Undef)>>)}

Docs ==
  TextDocs \cup MarkDocs \cup LinkDocs \cup HeadingDocs \cup CodeDocs \cup TableDocs
  \cup ListDocs \cup ImageDocs \cup OtherDocs \cup NotDocs \cup MalformedDocs

(* The rows the feed loaders select: author strings over ], > and a letter *)
MaxFeedLen == 3
FeedChars == {"]", ">", "a"}
FeedTexts ==
  UNION {[1..n -> FeedChars] : n \in 0..MaxFeedLen}
  \cup {<<"]", "]", "]", ">">>, <<"]", "]", ">", "]", "]", ">">>, <<" ">>}
FeedStrings(field) == {Str(Field(cs, field)) : cs \in FeedTexts} \cup {Null}
ThoughtRows == {[kind |-> "thought", content_text |-> t] : t \in FeedStrings("content_text")}
ArticleRows ==
  {[kind |-> "article", abstract |-> a, subtitle |-> b] :
     a \in FeedStrings("abstract"),
     b \in {Null, Str(Field(<<"]", "]", ">">>, "subtitle"))}}
PhotoRows ==
  {[kind |-> "photo", abstract |-> Null, title |-> t, cover |-> c, content_text |-> x] :
     t \in {Null, Str(Field(<<"a">>, "title")), Str(Field(<<"]", "]", ">">>, "title"))},
     c \in {Null} \cup {Obj([storage_key |-> Str(Field(<<"k">>, "storage_key")), alt |-> a]) :
                          a \in {Null, Str(Field(<<"]", "]", ">">>, "alt"))}},
     x \in {Null, Str(Field(<<"]", "]", ">">>, "content_text")),
            Str(Field(<<"a", "]">>, "content_text"))}}
CdataDocs ==
  {DocOf(<<Para(cs)>>) : cs \in FeedTexts}
  \cup {DocOf(<<Elem("paragraph", Undef,
                     Arr(<<Text(<<"]", "]">>, Arr(<<LinkMark(AttrStr(<<"]", "]", ">">>, "href"),
                                                            Undef, Undef)>>))>>))>>),
        DocOf(<<Elem("codeBlock", Obj([language |-> AttrStr(<<"]", "]", ">">>, "language")]),
                     Arr(<<Text(<<"]", "]", ">">>, Undef)>>))>>),
        DocOf(<<Elem("image", Obj([alt |-> AttrStr(<<"]", "]", ">">>, "alt")]), Undef)>>),
        DocOf(<<Elem("orderedList", Obj([start |-> Num(2)]),
                     Arr(<<Item("listItem", <<"]", "]">>)>>))>>),
        DocOf(<<>>), Null,
        DocOf(<<Elem("paragraph", Undef,
                     Arr(<<Obj([type |-> T("text"), text |-> Num(5)])>>))>>)}
Posts ==
  {[content_json |-> d, abstract |-> a, subtitle |-> Null] :
     d \in CdataDocs, a \in {Null, Str(Field(<<"]", "]", ">">>, "abstract"))}}

----------------------------------------------------------------------------
(* Before any call of trackPageView: the clock at its origin, nothing in    *)
(* the browser storage, no counter incremented.                             *)
ViewsIdle ==
  /\ now = 0
  /\ localStorage = Null
  /\ calls = <<>>
  /\ pageViews = <<>>

(* Before any token is generated *)
TokensIdle ==
  /\ dateNow = 0
  /\ issued = Null
  /\ verified = Null

(* Before any comment is submitted *)
CommentsIdle ==
  /\ requests = <<>>
  /\ comment = <<>>

(* Before any request of the unsubscribe and profile routes *)
NotifyIdle ==
  /\ comments = <<>>
  /\ pages = {}
  /\ notices = <<>>
  /\ journal = <<>>

(* Before any call of getLanguageSwitcherLinks *)
SwitcherIdle ==
  /\ switcherCall = [currentLang |-> <<>>, currentPath |-> <<>>,
                     availableLangs |-> [given |-> FALSE, langs |-> <<>>],
                     allLangs |-> [given |-> FALSE, langs |-> <<>>]]
  /\ switcherLinks = [called |-> FALSE, links |-> <<>>]

ArticlesIdle ==
  /\ articleRow = [is_premium |-> FALSE, content_json |-> Null]
  /\ articleSession = FALSE
  /\ articleData = [route |-> "none"]
  /\ articlePage = [route |-> "none"]

Init ==
  /\ doc \in Docs
  /\ feedHtml = Unset
  /\ plainHtml = Unset
  /\ rssHtml = Unset
  /\ textOut = Unset
  /\ pageDom = Unset
  /\ hl = <<>>
  /\ first = [feed |-> Unset, page |-> Unset, remounted |-> FALSE]
  /\ feedIn = [route |-> "none"]
  /\ feedContent = Unset
  /\ feedXml = Unset
  /\ ViewsIdle
  /\ TokensIdle
  /\ CommentsIdle
  /\ NotifyIdle
  /\ SwitcherIdle
  /\ ArticlesIdle

CallContentToHtml ==
  /\ feedHtml = Unset
  /\ feedHtml' = contentToHtml(doc, DefaultPrefix)
  /\ doc' = contentToHtml_document(doc)
  /\ UNCHANGED <<plainHtml, rssHtml, textOut, pageDom, hl, first>>
  /\ UNCHANGED otherVars

(* A second feed build of the same stored document; first.feed keeps what *)
(* the first build returned                                                *)
CallContentToHtmlAgain ==
  /\ feedHtml # Unset
  /\ first.feed = Unset
  /\ first' = [first EXCEPT !.feed = feedHtml]
  /\ feedHtml' = contentToHtml(doc, DefaultPrefix)
  /\ doc' = contentToHtml_document(doc)
  /\ UNCHANGED <<plainHtml, rssHtml, textOut, pageDom, hl>>
  /\ UNCHANGED otherVars

CallRenderPlainArticleHtml ==
  /\ plainHtml = Unset
  /\ plainHtml' = renderPlainArticleHtml(doc)
  /\ UNCHANGED <<doc, feedHtml, rssHtml, textOut, pageDom, hl, first>>
  /\ UNCHANGED otherVars

CallRenderRssArticleHtml ==
  /\ rssHtml = Unset
  /\ rssHtml' = renderRssArticleHtml(doc)
  /\ UNCHANGED <<doc, feedHtml, plainHtml, textOut, pageDom, hl, first>>
  /\ UNCHANGED otherVars

CallGetTextContent ==
  /\ textOut = Unset
  /\ textOut' = Ok(getTextContent(Prop(doc, "content")))
  /\ UNCHANGED <<doc, feedHtml, plainHtml, rssHtml, pageDom, hl, first>>
  /\ UNCHANGED otherVars

(* The page mounts: every CodeBlock starts loading and its effect is pending *)
RenderPage ==
  /\ pageDom = Unset
  /\ LET firstRender == ContentContainer(doc, <<>>)
         mounted == IF firstRender.ok /\ isContentStructure(doc)
                    THEN UNION {MountedCodeBlocks(doc.v["content"].v[i]) :
                                  i \in 1..Len(doc.v["content"].v)}
                    ELSE {}
     IN /\ hl' = [k \in mounted |-> [isLoading |-> TRUE, highlightedCode |-> <<>>]]
        /\ pageDom' = firstRender
        /\ first' = [first EXCEPT !.page = firstRender]
  /\ UNCHANGED <<doc, feedHtml, plainHtml, rssHtml, textOut>>
  /\ UNCHANGED otherVars

(* A second mount of ContentContainer on the same document: every          *)
(* CodeBlock starts from its useState initial values again; first.page     *)
(* keeps what the first mount rendered                                     *)
RenderPageAgain ==
  /\ pageDom # Unset
  /\ ~first.remounted
  /\ first' = [first EXCEPT !.remounted = TRUE]
  /\ hl' = [k \in DOMAIN hl |-> [isLoading |-> TRUE, highlightedCode |-> <<>>]]
  /\ pageDom' = ContentContainer(doc, hl')
  /\ UNCHANGED <<doc, feedHtml, plainHtml, rssHtml, textOut>>
  /\ UNCHANGED otherVars

(* loadHighlight runs to its end: both imports resolve and highlight returns *)
HighlightSucceeds ==
  \E k \in DOMAIN hl :
    /\ hl[k].isLoading
    /\ hljsKnows(k.language)
    /\ k.codeContent.t = "str"
    /\ hl' = [hl EXCEPT ![k] = [isLoading |-> FALSE,
                                highlightedCode |-> hljsHighlight(k.codeContent)]]
    /\ pageDom' = ContentContainer(doc, hl')
    /\ UNCHANGED <<doc, feedHtml, plainHtml, rssHtml, textOut, first>>
    /\ UNCHANGED otherVars

(* loadHighlight reaches its catch: an import rejects or highlight throws *)
HighlightFails ==
  \E k \in DOMAIN hl :
    /\ hl[k].isLoading
    /\ hl' = [hl EXCEPT ![k] = [isLoading |-> FALSE,
                                highlightedCode |-> ToJsString(k.codeContent)]]
    /\ pageDom' = ContentContainer(doc, hl')
    /\ UNCHANGED <<doc, feedHtml, plainHtml, rssHtml, textOut, first>>
    /\ UNCHANGED otherVars

Next ==
  \/ RenderPage
  \/ HighlightSucceeds
  \/ HighlightFails
  \/ CallContentToHtml
  \/ CallContentToHtmlAgain
  \/ RenderPageAgain
  \/ CallRenderPlainArticleHtml
  \/ CallRenderRssArticleHtml
  \/ CallGetTextContent

Spec == Init /\ [][Next]_vars

----------------------------------------------------------------------------
(* The feed routes *)

InitFeeds ==
  /\ doc = Null
  /\ feedHtml = Unset
  /\ plainHtml = Unset
  /\ rssHtml = Unset
  /\ textOut = Unset
  /\ pageDom = Unset
  /\ hl = <<>>
  /\ first = [feed |-> Unset, page |-> Unset, remounted |-> FALSE]
  /\ feedIn \in {[route |-> "rss", row |-> r] : r \in ThoughtRows \cup ArticleRows \cup PhotoRows}
                \cup {[route |-> "article", row |-> r] : r \in Posts}
  /\ feedContent = Unset
  /\ feedXml = Unset
  /\ ViewsIdle
  /\ TokensIdle
  /\ CommentsIdle
  /\ NotifyIdle
  /\ SwitcherIdle
  /\ ArticlesIdle

(* loader of the site feed, for one selected row *)
SiteFeedLoader ==
  /\ feedIn.route = "rss"
  /\ feedXml = Unset
  /\ LET entry == CASE feedIn.row.kind = "article" -> articleEntry(feedIn.row)
                     [] feedIn.row.kind = "photo" -> photoEntry(feedIn.row)
                     [] feedIn.row.kind = "thought" -> thoughtEntry(feedIn.row)
     IN /\ feedContent' = Ok(entry.content.v)
        /\ feedXml' = Ok(generateRss(entry))
  /\ UNCHANGED <<feedIn, rendVars, viewVars, tokenVars, commentVars, notifyVars, switcherVars, articleVars>>

(* loader of the article feed, for one selected post *)
ArticleFeedLoader ==
  /\ feedIn.route = "article"
  /\ feedXml = Unset
  /\ LET content == postEntry(feedIn.row)
     IN /\ feedContent' = content
        /\ feedXml' = IF content.ok
                      THEN Ok(generateRss_article([content |-> Str(content.v)]))
                      ELSE Thrown
  /\ UNCHANGED <<feedIn, rendVars, viewVars, tokenVars, commentVars, notifyVars, switcherVars, articleVars>>

NextFeeds == SiteFeedLoader \/ ArticleFeedLoader

SpecFeeds == InitFeeds /\ [][NextFeeds]_vars

----------------------------------------------------------------------------
(* Page views: src/app/utils/trackPageView.ts.  One browser storage and one *)
(* (contentType, contentId); the clock counts hours, so that the expiry     *)
(* time VIEW_EXPIRY_HOURS * 60 * 60 * 1000 ms is VIEW_EXPIRY_HOURS ticks.   *)
(* localStorage is the item under getStorageKey(contentType, contentId),    *)
(* Null when there is none; pageViews lists the times at which the RPC      *)
(* incremented the counter.  A call of trackPageView is a record: pc is its *)
(* position, onSuccess the callback it was given ("none" when the caller   *)
(* gave none, else what the callback does: "returns" or "throws"), result  *)
(* the boolean it resolved to, answer what the RPC did, record the item    *)
(* its recordView put into the storage (Null when it put none) and called  *)
(* the arguments its onSuccess was called with.                            *)

VIEW_EXPIRY_HOURS == 24
MaxClock == 25
MaxCalls == 2

(* The record recordView stores *)
recordView(contentType, contentId, timestamp) ==
  [contentId |-> contentId, timestamp |-> timestamp, contentType |-> contentType]

(* recordView with its try and catch: the item in the storage afterwards   *)
(* and whether setItem stored the record                                   *)
recordView_stored(item, contentType, contentId, timestamp, setItemThrows) ==
  IF setItemThrows THEN [stored |-> FALSE, item |-> item]
  ELSE [stored |-> TRUE, item |-> recordView(contentType, contentId, timestamp)]

(* hasViewedRecently: its result and the item it leaves in the storage *)
hasViewedRecently(item, contentType, contentId, t) ==
  IF item = Null THEN [viewed |-> FALSE, item |-> item]
  ELSE IF item.contentId = contentId /\ item.contentType = contentType
          /\ t - item.timestamp < VIEW_EXPIRY_HOURS
       THEN [viewed |-> TRUE, item |-> item]
  ELSE [viewed |-> FALSE, item |-> Null]

Callbacks == {"none", "returns", "throws"}

NewCall(callback) ==
  [pc |-> "start", onSuccess |-> callback, result |-> FALSE, answer |-> "none",
   record |-> Null, called |-> <<>>]

(* trackPageView from the answer of the RPC on: what it resolves to, the    *)
(* record it stored, the calls of onSuccess and the item in the storage.   *)
(* answer is "number" (no error, data a number), "error" (an error),       *)
(* "other" (no error, data null or not a number) or "rejects" (supabase.rpc *)
(* throws).  A throw of onSuccess is caught by the catch of trackPageView. *)
trackPageView_answered(call, item, answer, data, setItemThrows, t) ==
  IF answer = "number"
  THEN LET saved == recordView_stored(item, "article", 1, t, setItemThrows)
       IN [call EXCEPT !.pc = "done", !.answer = answer,
                       !.record = IF saved.stored THEN saved.item ELSE Null,
                       !.called = IF call.onSuccess = "none" THEN <<>> ELSE <<data>>,
                       !.result = call.onSuccess # "throws"]
  ELSE [call EXCEPT !.pc = "done", !.answer = answer, !.result = FALSE]

InitViews ==
  /\ doc = Null
  /\ feedHtml = Unset
  /\ plainHtml = Unset
  /\ rssHtml = Unset
  /\ textOut = Unset
  /\ pageDom = Unset
  /\ hl = <<>>
  /\ first = [feed |-> Unset, page |-> Unset, remounted |-> FALSE]
  /\ feedIn = [route |-> "none"]
  /\ feedContent = Unset
  /\ feedXml = Unset
  /\ now = 0
  /\ localStorage = Null
  /\ calls \in [1..MaxCalls -> {NewCall(callback) : callback \in Callbacks}]
  /\ pageViews = <<>>
  /\ TokensIdle
  /\ CommentsIdle
  /\ NotifyIdle
  /\ SwitcherIdle
  /\ ArticlesIdle

(* trackPageView up to its await: the check of the storage, then the RPC is *)
(* sent                                                                     *)
TrackPageView(c) ==
  /\ calls[c].pc = "start"
  /\ LET viewed == hasViewedRecently(localStorage, "article", 1, now)
     IN /\ localStorage' = viewed.item
        /\ calls' = [calls EXCEPT ![c].pc = IF viewed.viewed THEN "done" ELSE "awaiting"]
  /\ UNCHANGED <<now, pageViews, rendVars, feedVars, tokenVars, commentVars, notifyVars, switcherVars, articleVars>>

(* trackPageView after its await: the RPC has incremented the counter and   *)
(* answers with the new number; recordView stores the view, unless setItem *)
(* throws (a full or a disabled storage), and onSuccess is called          *)
RpcReturnsNumber(c, setItemThrows) ==
  /\ calls[c].pc = "awaiting"
  /\ pageViews' = Append(pageViews, now)
  /\ localStorage' = recordView_stored(localStorage, "article", 1, now, setItemThrows).item
  /\ calls' = [calls EXCEPT ![c] =
                 trackPageView_answered(calls[c], localStorage, "number",
                                        Len(pageViews) + 1, setItemThrows, now)]
  /\ UNCHANGED <<now, rendVars, feedVars, tokenVars, commentVars, notifyVars, switcherVars, articleVars>>

(* trackPageView after its await: the RPC answers with an error, answers    *)
(* without a number, or supabase.rpc throws                                *)
RpcReturnsError(c) ==
  /\ calls[c].pc = "awaiting"
  /\ calls' = [calls EXCEPT ![c] =
                 trackPageView_answered(calls[c], localStorage, "error", 0, FALSE, now)]
  /\ UNCHANGED <<now, localStorage, pageViews, rendVars, feedVars, tokenVars, commentVars, notifyVars, switcherVars, articleVars>>

RpcReturnsNoNumber(c) ==
  /\ calls[c].pc = "awaiting"
  /\ calls' = [calls EXCEPT ![c] =
                 trackPageView_answered(calls[c], localStorage, "other", 0, FALSE, now)]
  /\ UNCHANGED <<now, localStorage, pageViews, rendVars, feedVars, tokenVars, commentVars, notifyVars, switcherVars, articleVars>>

RpcRejects(c) ==
  /\ calls[c].pc = "awaiting"
  /\ calls' = [calls EXCEPT ![c] =
                 trackPageView_answered(calls[c], localStorage, "rejects", 0, FALSE, now)]
  /\ UNCHANGED <<now, localStorage, pageViews, rendVars, feedVars, tokenVars, commentVars, notifyVars, switcherVars, articleVars>>

(* An hour passes *)
Tick ==
  /\ now < MaxClock
  /\ now' = now + 1
  /\ UNCHANGED <<localStorage, calls, pageViews, rendVars, feedVars, tokenVars, commentVars, notifyVars, switcherVars, articleVars>>

NextViews ==
  \/ \E c \in 1..MaxCalls : TrackPageView(c)
  \/ \E c \in 1..MaxCalls, setItemThrows \in BOOLEAN : RpcReturnsNumber(c, setItemThrows)
  \/ \E c \in 1..MaxCalls : RpcReturnsError(c)
  \/ \E c \in 1..MaxCalls : RpcReturnsNoNumber(c)
  \/ \E c \in 1..MaxCalls : RpcRejects(c)
  \/ Tick

SpecViews == InitViews /\ [][NextViews]_vars

----------------------------------------------------------------------------
(* Unsubscribe tokens: src/app/utils/unsubscribeToken.server.ts (a JSON     *)
(* token, base64 encoded) and its later form in src/unnamed/part_018 (a     *)
(* JWT).  A text is a sequence of characters, a buffer a sequence of bytes. *)
(* The texts are ASCII, so that TextEncoder and TextDecoder map a character *)
(* to its code and back.                                                    *)

(* The characters with the codes 32 to 126, in order *)
Printable ==
  <<" ", "!", "\"", "#", "$", "%", "&", "'", "(", ")", "*", "+", ",",
    "-", ".", "/", "0", "1", "2", "3", "4", "5", "6", "7", "8", "9", ":",
    ";", "<", "=", ">", "?", "@", "A", "B", "C", "D", "E", "F", "G", "H",
    "I", "J", "K", "L", "M", "N", "O", "P", "Q", "R", "S", "T", "U", "V",
    "W", "X", "Y", "Z", "[", "\\", "]", "^", "_", "grave", "a", "b", "c",
    "d", "e", "f", "g", "h", "i", "j", "k", "l", "m", "n", "o", "p", "q",
    "r", "s", "t", "u", "v", "w", "x", "y", "z", "{", "|", "}", "~">>

(* String.fromCharCode and charCodeAt; a character outside Printable is     *)
(* written # and its code                                                   *)
fromCharCode(code) ==
  IF code \in 32..126 THEN Printable[code - 31] ELSE "#" \o ToString(code)
charCodeAt(ch) ==
  IF \E i \in 1..Len(Printable) : Printable[i] = ch
  THEN 31 + (CHOOSE i \in 1..Len(Printable) : Printable[i] = ch)
  ELSE CHOOSE code \in (0..31) \cup (127..255) \cup {65533} : fromCharCode(code) = ch

(* TextEncoder.encode: UTF-8 *)
RECURSIVE textEncode(_)
textEncode(text) ==
  IF text = <<>> THEN <<>>
  ELSE LET code == charCodeAt(text[1])
       IN (IF code < 128 THEN <<code>>
           ELSE IF code < 2048 THEN <<192 + (code \div 64), 128 + (code % 64)>>
           ELSE <<224 + (code \div 4096), 128 + ((code \div 64) % 64), 128 + (code % 64)>>)
          \o textEncode(Tail(text))

(* TextDecoder.decode, exact on ASCII; a byte above 127 is decoded to the   *)
(* replacement character U+FFFD                                             *)
textDecode(bytes) ==
  [i \in 1..Len(bytes) |-> IF bytes[i] < 128 THEN fromCharCode(bytes[i]) ELSE fromCharCode(65533)]

Base64Alphabet ==
  <<"A", "B", "C", "D", "E", "F", "G", "H", "I", "J", "K", "L", "M", "N",
    "O", "P", "Q", "R", "S", "T", "U", "V", "W", "X", "Y", "Z", "a", "b",
    "c", "d", "e", "f", "g", "h", "i", "j", "k", "l", "m", "n", "o", "p",
    "q", "r", "s", "t", "u", "v", "w", "x", "y", "z", "0", "1", "2", "3",
    "4", "5", "6", "7", "8", "9", "+", "/">>

(* btoa, on the codes of its binary string *)
RECURSIVE btoa(_)
btoa(bytes) ==
  LET n == Len(bytes)
      b(i) == IF i <= n THEN bytes[i] ELSE 0
      group == b(1) * 65536 + b(2) * 256 + b(3)
      ch(k) == Base64Alphabet[((group \div (64 ^ (3 - k))) % 64) + 1]
  IN IF n = 0 THEN <<>>
     ELSE IF n = 1 THEN <<ch(0), ch(1), "=", "=">>
     ELSE IF n = 2 THEN <<ch(0), ch(1), ch(2), "=">>
     ELSE <<ch(0), ch(1), ch(2), ch(3)>> \o btoa(SubSeq(bytes, 4, n))

(* The bytes of a sequence of 6-bit values; of a last group of 12 or 18     *)
(* bits the last four or two are dropped                                    *)
RECURSIVE atob_bytes(_)
atob_bytes(sextets) ==
  LET n == Len(sextets)
      x(i) == IF i <= n THEN sextets[i] ELSE 0
      group == x(1) * 262144 + x(2) * 4096 + x(3) * 64 + x(4)
      byte(k) == (group \div (256 ^ (2 - k))) % 256
  IN IF n = 0 THEN <<>>
     ELSE IF n = 2 THEN <<byte(0)>>
     ELSE IF n = 3 THEN <<byte(0), byte(1)>>
     ELSE <<byte(0), byte(1), byte(2)>> \o atob_bytes(SubSeq(sextets, 5, n))

(* atob, giving the codes of its binary string: white space is removed, a   *)
(* final = or == of a string whose length is a multiple of four is removed, *)
(* a length of 1 modulo 4 or a character outside the alphabet throws        *)
atob(data) ==
  LET spaced == SelectSeq(data, LAMBDA c : c # " ")
      n == Len(spaced)
      unpadded == IF n > 0 /\ n % 4 = 0 /\ spaced[n] = "="
                  THEN IF spaced[n - 1] = "=" THEN SubSeq(spaced, 1, n - 2)
                       ELSE SubSeq(spaced, 1, n - 1)
                  ELSE spaced
      index(c) == (CHOOSE i \in 1..64 : Base64Alphabet[i] = c) - 1
  IN IF Len(unpadded) % 4 = 1
        \/ \E i \in 1..Len(unpadded) : \A k \in 1..64 : Base64Alphabet[k] # unpadded[i]
     THEN Thrown
     ELSE Ok(atob_bytes([i \in 1..Len(unpadded) |-> index(unpadded[i])]))

base64UrlEncode(bytes) ==
  LET replaced == [i \in 1..Len(btoa(bytes)) |->
                     CASE btoa(bytes)[i] = "+" -> "-"
                       [] btoa(bytes)[i] = "/" -> "_"
                       [] OTHER -> btoa(bytes)[i]]
  IN SelectSeq(replaced, LAMBDA c : c # "=")

base64UrlDecode(input) ==
  LET normalized == [i \in 1..Len(input) |->
                       CASE input[i] = "-" -> "+"
                         [] input[i] = "_" -> "/"
                         [] OTHER -> input[i]]
      padding == (4 - (Len(normalized) % 4)) % 4
  IN atob(normalized \o [i \in 1..padding |-> "="])

(* JSON.parse of a text of the shape lits[1] field lits[2] field ... with    *)
(* no white space, as JSON.stringify writes it: the fields, a field running *)
(* to the first character of the literal after it.  Any other text throws:  *)
(* a text of another shape is never one that was signed.                    *)
RECURSIVE JSON_fields(_, _)
JSON_fields(text, lits) ==
  LET lit == lits[1]
      rest == SubSeq(text, Len(lit) + 1, Len(text))
      ends == {i \in 1..Len(rest) : rest[i] = lits[2][1]}
      end == CHOOSE i \in ends : \A j \in ends : i <= j
      more == JSON_fields(SubSeq(rest, end, Len(rest)), Tail(lits))
  IN IF Len(text) < Len(lit) \/ SubSeq(text, 1, Len(lit)) # lit THEN Thrown
     ELSE IF Len(lits) = 1 THEN (IF rest = <<>> THEN Ok(<<>>) ELSE Thrown)
     ELSE IF ends = {} \/ ~more.ok THEN Thrown
     ELSE Ok(<<SubSeq(rest, 1, end - 1)>> \o more.v)

Digit == <<"0", "1", "2", "3", "4", "5", "6", "7", "8", "9">>

(* The decimal text of a number that is not negative *)
RECURSIVE Number_toString(_)
Number_toString(n) ==
  IF n < 10 THEN <<Digit[n + 1]>>
  ELSE Number_toString(n \div 10) \o <<Digit[(n % 10) + 1]>>

(* The number of a JSON field: digits, no leading zero *)
RECURSIVE JSON_number(_)
JSON_number(field) ==
  LET n == Len(field)
      isDigit(c) == \E d \in 1..10 : Digit[d] = c
      value(c) == (CHOOSE d \in 1..10 : Digit[d] = c) - 1
      front == JSON_number(SubSeq(field, 1, n - 1))
  IN IF n = 0 \/ ~isDigit(field[n]) \/ (n > 1 /\ field[1] = "0") THEN Thrown
     ELSE IF n = 1 THEN Ok(value(field[1]))
     ELSE IF ~front.ok THEN Thrown
     ELSE Ok(front.v * 10 + value(field[n]))

(* JSON.stringify of an object whose keys are those of lits *)
RECURSIVE JSON_stringify(_, _)
JSON_stringify(lits, fields) ==
  IF fields = <<>> THEN lits[1]
  ELSE lits[1] \o fields[1] \o JSON_stringify(Tail(lits), Tail(fields))

(* The clock of Date.now() counts seconds here where the code counts         *)
(* milliseconds (thirty days of milliseconds are beyond the integers of     *)
(* TLC): an age or a timestamp is that of the code divided by 1000.         *)
MAX_TOKEN_AGE_MS == 7 * 24 * 60 * 60
DefaultMaxAgeMs == 30 * 24 * 60 * 60

MaxSlack == 1
MaxCommentId == 2
Secrets == <<<<"k", "1">>, <<"k", "2">>>>

(* The instants of the clock: the origin and the two default ages, each     *)
(* with the instants right after it                                         *)
Instants ==
  [i \in 1..3 * (MaxSlack + 1) |->
     <<0, MAX_TOKEN_AGE_MS, DefaultMaxAgeMs>>[((i - 1) \div (MaxSlack + 1)) + 1]
     + ((i - 1) % (MaxSlack + 1))]

PayloadLits ==
  <<<<"{", "\"", "c", "o", "m", "m", "e", "n", "t", "I", "d", "\"",
      ":">>,
    <<",", "\"", "t", "i", "m", "e", "s", "t", "a", "m", "p", "\"",
      ":">>,
    <<"}">>>>

TokenLits ==
  <<<<"{", "\"", "p", "a", "y", "l", "o", "a", "d", "\"", ":", "\"">>,
    <<"\"", ",", "\"", "s", "i", "g", "n", "a", "t", "u", "r", "e",
      "\"", ":", "\"">>,
    <<"\"", "}">>>>

JwtHeaderLits ==
  <<<<"{", "\"", "a", "l", "g", "\"", ":", "\"">>,
    <<"\"", ",", "\"", "t", "y", "p", "\"", ":", "\"">>,
    <<"\"", "}">>>>

JwtPayloadLits ==
  <<<<"{", "\"", "c", "o", "m", "m", "e", "n", "t", "_", "i", "d",
      "\"", ":">>,
    <<",", "\"", "t", "i", "m", "e", "s", "t", "a", "m", "p", "\"",
      ":">>,
    <<",", "\"", "i", "a", "t", "\"", ":">>,
    <<"}">>>>

(* The text generateUnsubscribeToken signs, in the JSON token and in the JWT *)
payloadStr(commentId, timestamp) ==
  JSON_stringify(PayloadLits, <<Number_toString(commentId), Number_toString(timestamp)>>)
signingInput(commentId, time) ==
  base64UrlEncode(textEncode(JSON_stringify(JwtHeaderLits,
                                            <<<<"H", "S", "2", "5", "6">>, <<"J", "W", "T">>>>)))
  \o <<".">>
  \o base64UrlEncode(textEncode(JSON_stringify(JwtPayloadLits,
       <<Number_toString(commentId), Number_toString(time), Number_toString(time)>>)))

(* crypto.subtle.sign("HMAC", key, data), the platform's HMAC-SHA256, as an *)
(* ideal keyed function with a tag of two bytes: the tag names the key and  *)
(* the buffer, one of those generateUnsubscribeToken signs or any other.    *)
SignedBuffers ==
  [i \in 1..2 * MaxCommentId * Len(Instants) |->
     LET commentId == (((i - 1) \div Len(Instants)) % MaxCommentId) + 1
         timestamp == Instants[((i - 1) % Len(Instants)) + 1]
     IN IF i <= MaxCommentId * Len(Instants)
        THEN textEncode(payloadStr(commentId, timestamp))
        ELSE textEncode(signingInput(commentId, timestamp))]
hmac(secret, data) ==
  LET key == CHOOSE k \in 1..Len(Secrets) : Secrets[k] = secret
      signed == {i \in 1..Len(SignedBuffers) : SignedBuffers[i] = data}
  IN <<key, IF signed = {} THEN 255 ELSE CHOOSE i \in signed : TRUE>>

(* now - timestamp >= maxAgeMs *)
expired_atLimit(time, timestamp, maxAgeMs) == time - timestamp >= maxAgeMs

(* now - timestamp > maxAgeMs *)
expired(time, timestamp, maxAgeMs) == time - timestamp > maxAgeMs

(* generateUnsubscribeToken of unsubscribeToken.server.ts, when Date.now()  *)
(* gives time                                                               *)
generateUnsubscribeToken(commentId, secret, time) ==
  LET text == payloadStr(commentId, time)
      signature == btoa(hmac(secret, textEncode(text)))
      token == JSON_stringify(TokenLits,
                              <<btoa([i \in 1..Len(text) |-> charCodeAt(text[i])]), signature>>)
  IN btoa([i \in 1..Len(token) |-> charCodeAt(token[i])])

(* verifyUnsubscribeToken of unsubscribeToken.server.ts: the comment id, or *)
(* Null, which is also what its catch returns                               *)
verifyUnsubscribeToken(token, secret, maxAgeMs, time) ==
  LET tokenStr == atob(token)
      tokenObj == JSON_fields([i \in 1..Len(tokenStr.v) |-> fromCharCode(tokenStr.v[i])],
                              TokenLits)
      decoded == atob(tokenObj.v[1])
      text == [i \in 1..Len(decoded.v) |-> fromCharCode(decoded.v[i])]
      payload == JSON_fields(text, PayloadLits)
      commentId == JSON_number(payload.v[1])
      timestamp == JSON_number(payload.v[2])
      expectedSignature == btoa(hmac(secret, textEncode(text)))
  IN IF ~tokenStr.ok THEN Null
     ELSE IF ~tokenObj.ok THEN Null
     ELSE IF ~decoded.ok THEN Null
     ELSE IF ~payload.ok \/ ~commentId.ok \/ ~timestamp.ok THEN Null
     ELSE IF expired(time, timestamp.v, maxAgeMs) THEN Null
     ELSE IF tokenObj.v[2] # expectedSignature THEN Null
     ELSE Num(commentId.v)

RECURSIVE split(_, _)
split(text, separator) ==
  LET at == {i \in 1..Len(text) : text[i] = separator}
      head == CHOOSE i \in at : \A j \in at : i <= j
  IN IF at = {} THEN <<text>>
     ELSE <<SubSeq(text, 1, head - 1)>> \o split(SubSeq(text, head + 1, Len(text)), separator)

timingSafeEqual(a, b) ==
  LET RECURSIVE xor(_, _)
      xor(p, q) == IF p = 0 /\ q = 0 THEN 0
                   ELSE ((p + q) % 2) + 2 * xor(p \div 2, q \div 2)
      RECURSIVE or(_, _)
      or(p, q) == IF p = 0 /\ q = 0 THEN 0
                  ELSE (IF p % 2 = 1 \/ q % 2 = 1 THEN 1 ELSE 0) + 2 * or(p \div 2, q \div 2)
      RECURSIVE diff(_)
      diff(i) == IF i = 0 THEN 0 ELSE or(diff(i - 1), xor(a[i], b[i]))
  IN IF Len(a) # Len(b) THEN FALSE ELSE diff(Len(a)) = 0

(* generateUnsubscribeToken of the JWT form *)
generateUnsubscribeToken_jwt(commentId, secret, time) ==
  signingInput(commentId, time) \o <<".">>
  \o base64UrlEncode(hmac(secret, textEncode(signingInput(commentId, time))))

(* verifyUnsubscribeToken of the JWT form *)
verifyUnsubscribeToken_jwt(token, secret, maxAgeMs, time) ==
  LET parts == split(token, ".")
      headerJson == base64UrlDecode(parts[1])
      header == JSON_fields(textDecode(headerJson.v), JwtHeaderLits)
      expectedSignature == hmac(secret, textEncode(parts[1] \o <<".">> \o parts[2]))
      providedSignature == base64UrlDecode(parts[3])
      payloadJson == base64UrlDecode(parts[2])
      payload == JSON_fields(textDecode(payloadJson.v), JwtPayloadLits)
      commentId == JSON_number(payload.v[1])
      issuedAt == JSON_number(payload.v[2])
  IN IF Len(parts) # 3 THEN Null
     ELSE IF ~headerJson.ok \/ ~header.ok THEN Null
     ELSE IF header.v[1] # <<"H", "S", "2", "5", "6">> THEN Null
     ELSE IF ~providedSignature.ok THEN Null
     ELSE IF ~timingSafeEqual(expectedSignature, providedSignature.v) THEN Null
     ELSE IF ~payloadJson.ok \/ ~payload.ok THEN Null
     ELSE IF ~commentId.ok \/ ~issuedAt.ok THEN Null
     ELSE IF expired(time, issuedAt.v, maxAgeMs) THEN Null
     ELSE Num(commentId.v)

(* The token routes: a token is generated for a comment, time passes, and   *)
(* a string is given to verifyUnsubscribeToken with its default maxAgeMs.   *)
(* form is "json" for unsubscribeToken.server.ts and "jwt" for its later    *)
(* form.                                                                    *)

InitTokens ==
  /\ doc = Null
  /\ feedHtml = Unset
  /\ plainHtml = Unset
  /\ rssHtml = Unset
  /\ textOut = Unset
  /\ pageDom = Unset
  /\ hl = <<>>
  /\ first = [feed |-> Unset, page |-> Unset, remounted |-> FALSE]
  /\ feedIn = [route |-> "none"]
  /\ feedContent = Unset
  /\ feedXml = Unset
  /\ ViewsIdle
  /\ TokensIdle
  /\ CommentsIdle
  /\ NotifyIdle
  /\ SwitcherIdle
  /\ ArticlesIdle

(* The strings a holder of the token can make of it: the token, the token   *)
(* with one character replaced by the next of the alphabet, the token cut   *)
(* short, the token with a segment more, the empty string                   *)
Strings_of(token) ==
  LET next(c) == IF \E k \in 1..64 : Base64Alphabet[k] = c
                 THEN Base64Alphabet[((CHOOSE k \in 1..64 : Base64Alphabet[k] = c) % 64) + 1]
                 ELSE "A"
  IN {token, SubSeq(token, 1, Len(token) - 1), token \o <<".", "A">>, <<>>}
     \cup {[token EXCEPT ![p] = next(token[p])] : p \in 1..Len(token)}

Generate(form, commentId, secret) ==
  /\ issued = Null
  /\ dateNow <= MaxSlack
  /\ issued' = [form |-> form, commentId |-> commentId, secret |-> secret,
                timestamp |-> dateNow,
                token |-> IF form = "json"
                          THEN generateUnsubscribeToken(commentId, secret, dateNow)
                          ELSE generateUnsubscribeToken_jwt(commentId, secret, dateNow)]
  /\ UNCHANGED <<dateNow, verified, rendVars, feedVars, viewVars, commentVars, notifyVars, switcherVars, articleVars>>

TimePasses ==
  /\ verified = Null
  /\ \E i \in 1..Len(Instants) : Instants[i] > dateNow /\ dateNow' = Instants[i]
  /\ UNCHANGED <<issued, verified, rendVars, feedVars, viewVars, commentVars, notifyVars, switcherVars, articleVars>>

Verify(secret) ==
  /\ issued # Null
  /\ verified = Null
  /\ \E token \in Strings_of(issued.token) :
       verified' = [token |-> token, secret |-> secret,
                    result |-> IF issued.form = "json"
                               THEN verifyUnsubscribeToken(token, secret, DefaultMaxAgeMs,
                                                           dateNow)
                               ELSE verifyUnsubscribeToken_jwt(token, secret, MAX_TOKEN_AGE_MS,
                                                               dateNow)]
  /\ UNCHANGED <<dateNow, issued, rendVars, feedVars, viewVars, commentVars, notifyVars, switcherVars, articleVars>>

NextTokens ==
  \/ \E form \in {"json", "jwt"}, commentId \in 1..MaxCommentId, k \in 1..Len(Secrets) :
       Generate(form, commentId, Secrets[k])
  \/ TimePasses
  \/ \E k \in 1..Len(Secrets) : Verify(Secrets[k])

SpecTokens == InitTokens /\ [][NextTokens]_vars

----------------------------------------------------------------------------
(* The comment actions of src/app/routes/$lang.article.$slug.tsx and        *)
(* src/app/routes/$lang.thought.$slug.tsx, which differ in the column the   *)
(* row points with (to_article, to_thought).  requests[r] is one request:   *)
(* its route, whether supabase.auth.getSession() finds a session, where its *)
(* action stands, the body siteverify answered with and what the action     *)
(* returned; comment is the table, in the order of the inserts.             *)

MaxRequests == 2

Bool(b) == [t |-> "bool", v |-> b]

(* Bodies of a siteverify response *)
TurnstileBodies ==
  {Obj([success |-> Bool(TRUE)]),
   Obj([success |-> Bool(FALSE)]),
   Obj([success |-> Bool(FALSE), errorCodes |-> Arr(<<Str(Lit("invalid-input-response"))>>)]),
   Obj([success |-> Str(Lit("true"))]),
   Obj([errorCodes |-> Arr(<<>>)]),
   Null}

isTurnstileOutcome(value) ==
  value.t = "obj" /\ Prop(value, "success").t = "bool"

parseTurnstileOutcome(value) ==
  IF ~isTurnstileOutcome(value) THEN Thrown ELSE Ok(value)

(* outcome["error-codes"] in place of !outcome.success *)
turnstileFailed_byErrorCodes(outcome) == Prop(outcome, "errorCodes") # Undef

(* !outcome.success *)
turnstileFailed(outcome) == ~Prop(outcome, "success").v

InitComments ==
  /\ doc = Null
  /\ feedHtml = Unset
  /\ plainHtml = Unset
  /\ rssHtml = Unset
  /\ textOut = Unset
  /\ pageDom = Unset
  /\ hl = <<>>
  /\ first = [feed |-> Unset, page |-> Unset, remounted |-> FALSE]
  /\ feedIn = [route |-> "none"]
  /\ feedContent = Unset
  /\ feedXml = Unset
  /\ ViewsIdle
  /\ TokensIdle
  /\ requests \in [1..MaxRequests ->
                    {[route |-> route, session |-> session, pc |-> "received",
                      turnstile |-> Undef, returned |-> "nothing"] :
                       route \in {"article", "thought"}, session \in BOOLEAN}]
  /\ comment = <<>>
  /\ NotifyIdle
  /\ SwitcherIdle
  /\ ArticlesIdle

(* action, to its first await after getSession: siteverify is asked when    *)
(* there is no session, the users table when there is one                   *)
Action(r) ==
  /\ requests[r].pc = "received"
  /\ requests' = [requests EXCEPT ![r].pc = IF requests[r].session THEN "users"
                                             ELSE "siteverify"]
  /\ UNCHANGED <<comment, rendVars, feedVars, viewVars, tokenVars, notifyVars, switcherVars, articleVars>>

(* siteverify answers: the action throws on a body that is no outcome,      *)
(* returns the error result on a failure, and sends the insert on a success *)
SiteverifyResponds(r) ==
  /\ requests[r].pc = "siteverify"
  /\ \E body \in TurnstileBodies :
       LET outcome == parseTurnstileOutcome(body)
       IN requests' = [requests EXCEPT ![r] =
            IF ~outcome.ok
            THEN [@ EXCEPT !.pc = "done", !.turnstile = body, !.returned = "thrown"]
            ELSE IF turnstileFailed(outcome.v)
            THEN [@ EXCEPT !.pc = "done", !.turnstile = body, !.returned = "error"]
            ELSE [@ EXCEPT !.pc = "insert", !.turnstile = body]]
  /\ UNCHANGED <<comment, rendVars, feedVars, viewVars, tokenVars, notifyVars, switcherVars, articleVars>>

(* the fetch of siteverify, or the reading of its body, rejects *)
SiteverifyRejects(r) ==
  /\ requests[r].pc = "siteverify"
  /\ requests' = [requests EXCEPT ![r].pc = "done", ![r].returned = "thrown"]
  /\ UNCHANGED <<comment, rendVars, feedVars, viewVars, tokenVars, notifyVars, switcherVars, articleVars>>

(* the insert of the anonymous comment answers, with the row or an error *)
InsertReturns(r) ==
  /\ requests[r].pc = "insert"
  /\ \E error \in BOOLEAN :
       /\ comment' = IF error THEN comment
                     ELSE Append(comment, [request |-> r, is_anonymous |-> TRUE,
                                           to |-> requests[r].route])
       /\ requests' = [requests EXCEPT ![r].pc = "done",
                                       ![r].returned = IF error THEN "error" ELSE "success"]
  /\ UNCHANGED <<rendVars, feedVars, viewVars, tokenVars, notifyVars, switcherVars, articleVars>>

(* the users table answers, with the profile or without *)
UsersReturns(r) ==
  /\ requests[r].pc = "users"
  /\ \E userProfile \in BOOLEAN :
       requests' = [requests EXCEPT ![r] =
                      IF userProfile THEN [@ EXCEPT !.pc = "insertUser"]
                      ELSE [@ EXCEPT !.pc = "done", !.returned = "error"]]
  /\ UNCHANGED <<comment, rendVars, feedVars, viewVars, tokenVars, notifyVars, switcherVars, articleVars>>

(* the insert of the signed-in comment answers; its error is not read *)
InsertUserReturns(r) ==
  /\ requests[r].pc = "insertUser"
  /\ \E error \in BOOLEAN :
       comment' = IF error THEN comment
                  ELSE Append(comment, [request |-> r, is_anonymous |-> FALSE,
                                        to |-> requests[r].route])
  /\ requests' = [requests EXCEPT ![r].pc = "done", ![r].returned = "success"]
  /\ UNCHANGED <<rendVars, feedVars, viewVars, tokenVars, notifyVars, switcherVars, articleVars>>

NextComments ==
  \E r \in 1..MaxRequests :
    \/ Action(r)
    \/ SiteverifyResponds(r)
    \/ SiteverifyRejects(r)
    \/ InsertReturns(r)
    \/ UsersReturns(r)
    \/ InsertUserReturns(r)

SpecComments == InitComments /\ [][NextComments]_vars

----------------------------------------------------------------------------
(* Reply notifications and their switch: the comment table with the column  *)
(* receive_notification, written by the action of                          *)
(* src/app/routes/unsubscribe.tsx, by the action of                         *)
(* src/app/routes/$lang.unsubscribe.tsx and by the action of the profile    *)
(* route, and read by sendCommentReplyNotification.  comments[c] is the comment *)
(* with id c; pages holds the toggle forms the profile loader has rendered  *)
(* into pages that are still open; notices[n] is one call of                *)
(* sendCommentReplyNotification; journal lists, in their order, the         *)
(* unsubscribe actions that returned success, the writes of the profile     *)
(* action, the calls of sendCommentReplyNotification and the emails sent,   *)
(* each email with the token of its unsubscribe link.                       *)
(* Each route action is one step: it has one write, and what it reads       *)
(* before it (the session, the users row, the owner of the comment) is      *)
(* written by no action.                                                    *)

MaxEvents == 3
MaxNotices == 1

(* public.users: the account "a" has a row, the account "b" has none *)
users == <<[id |-> 1, user_id |-> "a"]>>

(* The owner of comment c, a public.users id *)
ownerOf(c) == ((c - 1) % 2) + 1

NoRow == [exists |-> FALSE, user_id |-> 0, receive_notification |-> FALSE]

(* context.cloudflare.env: each key set or not *)
Envs ==
  {[RESEND_KEY |-> resendKey, UNSUBSCRIBE_KEY |-> unsubscribeKey] :
     resendKey \in {<<>>, Secrets[1]},
     unsubscribeKey \in {<<>>, Secrets[1], Secrets[2]}}

(* parseInt(text, 10): the number its leading digits write; NaN, which no   *)
(* id equals, is 0 here, which no id equals either                          *)
parseInt(text) ==
  LET isDigit(c) == \E d \in 1..10 : Digit[d] = c
      value(c) == (CHOOSE d \in 1..10 : Digit[d] = c) - 1
      RECURSIVE digits(_, _)
      digits(rest, n) == IF rest = <<>> \/ ~isDigit(rest[1]) THEN n
                         ELSE digits(Tail(rest), 10 * n + value(rest[1]))
  IN digits(text, 0)

(* String(value) of a boolean *)
String(value) == IF value THEN "true" ELSE "false"

(* supabase.from("comment").select(...).eq("id", id).maybeSingle() *)
selectComment(table, id) ==
  IF id \in DOMAIN table /\ table[id].exists THEN table[id] ELSE NoRow

(* supabase.from("comment").update({receive_notification: value}).eq("id", id) *)
updateComment(table, id, value) ==
  [c \in DOMAIN table |->
     IF c = id /\ table[c].exists THEN [table[c] EXCEPT !.receive_notification = value]
     ELSE table[c]]

(* supabase.from("comment").delete().eq("id", id) *)
deleteComment(table, id) ==
  [c \in DOMAIN table |-> IF c = id THEN NoRow ELSE table[c]]

(* supabase.from("users").select("id").eq("user_id", userId).maybeSingle() *)
selectUser(userId) ==
  LET found == {i \in 1..Len(users) : users[i].user_id = userId}
  IN IF found = {} THEN [exists |-> FALSE, id |-> 0]
     ELSE [exists |-> TRUE, id |-> users[CHOOSE i \in found : TRUE].id]

(* The tokens a POST can carry: the token of an email that went out, or a   *)
(* string that is no token                                                  *)
PostedTokens ==
  {<<"x">>} \cup {journal[m].token : m \in {e \in 1..Len(journal) : journal[e].event = "email"}}

(* The fields a POST can carry: the form of /unsubscribe has a comment id,  *)
(* the form of /:lang/unsubscribe a token, or none                          *)
UnsubscribeForms ==
  {[commentId |-> commentId, token |-> <<>>] :
     commentId \in {<<>>, <<"x">>} \cup {Number_toString(c) : c \in 1..MaxCommentId}}
  \cup {[commentId |-> <<>>, token |-> token] : token \in PostedTokens}

(* The action of src/app/routes/unsubscribe.tsx on a POST with the fields   *)
(* form, when the update answers with an error or without: what it returns, *)
(* the id it updated (0 when none), and the table it leaves                 *)
unsubscribe_action(form, error, table) ==
  IF form.commentId = <<>>
  THEN [success |-> FALSE, commentId |-> 0, table |-> table]
  ELSE IF error
  THEN [success |-> FALSE, commentId |-> 0, table |-> table]
  ELSE [success |-> TRUE, commentId |-> parseInt(form.commentId),
        table |-> updateComment(table, parseInt(form.commentId), FALSE)]

(* The action of src/app/routes/$lang.unsubscribe.tsx, from the answer of   *)
(* verifyUnsubscribeToken on                                                *)
lang_unsubscribe_verified(commentId, error, table) ==
  IF commentId = Null \/ commentId.v = 0
  THEN [success |-> FALSE, commentId |-> 0, table |-> table]
  ELSE IF error
  THEN [success |-> FALSE, commentId |-> 0, table |-> table]
  ELSE [success |-> TRUE, commentId |-> commentId.v,
        table |-> updateComment(table, commentId.v, FALSE)]

(* The action of src/app/routes/$lang.unsubscribe.tsx *)
lang_unsubscribe_action(form, env, error, table) ==
  IF form.token = <<>>
  THEN [success |-> FALSE, commentId |-> 0, table |-> table]
  ELSE IF env.UNSUBSCRIBE_KEY = <<>>
  THEN [success |-> FALSE, commentId |-> 0, table |-> table]
  ELSE lang_unsubscribe_verified(
         verifyUnsubscribeToken(form.token, env.UNSUBSCRIBE_KEY, DefaultMaxAgeMs, dateNow),
         error, table)

(* The forms the profile page renders for the comments of publicUser *)
toggleForms(table, publicUserId) ==
  {[intent |-> "toggle_notification", commentId |-> Number_toString(c),
    currentValue |-> String(table[c].receive_notification)] :
     c \in {d \in DOMAIN table : table[d].exists /\ table[d].user_id = publicUserId}}

(* The value toggle_notification writes: !currentValue *)
toggled(currentValue) == ~currentValue

(* comment.user_id !== publicUser.id left out *)
ownsComment_any(row, publicUser) == row.exists

(* comment && comment.user_id === publicUser.id *)
ownsComment(row, publicUser) == row.exists /\ row.user_id = publicUser.id

(* The action of the profile route, for the session user (the empty string  *)
(* when there is no session) and the route parameter id                     *)
profile_action(session, userId, form, error, table) ==
  LET commentId == parseInt(form.commentId)
      publicUser == selectUser(userId)
      row == selectComment(table, commentId)
      currentValue == form.currentValue = "true"
      failed == [returned |-> "error", wrote |-> "nothing", commentId |-> 0,
                 table |-> table]
  IN IF session = "" \/ session # userId THEN failed
     ELSE IF ~publicUser.exists THEN failed
     ELSE IF ~ownsComment(row, publicUser) THEN failed
     ELSE IF form.intent = "delete"
     THEN IF error THEN failed
          ELSE [returned |-> "success", wrote |-> "deleted", commentId |-> commentId,
                table |-> deleteComment(table, commentId)]
     ELSE IF form.intent = "toggle_notification"
     THEN IF error THEN failed
          ELSE [returned |-> "success",
                wrote |-> IF toggled(currentValue) THEN "enabled"
                          ELSE "disabled",
                commentId |-> commentId,
                table |-> updateComment(table, commentId,
                                        toggled(currentValue))]
     ELSE failed

(* The fields a POST to the profile route can carry *)
ProfileForms ==
  {[intent |-> intent, commentId |-> commentId, currentValue |-> currentValue] :
     intent \in {"delete", "toggle_notification", "edit"},
     commentId \in {<<"x">>} \cup {Number_toString(c) : c \in 1..MaxCommentId},
     currentValue \in {"true", "false"}}
Sessions == {"", "a", "b"}

(* parentComment.receive_notification !== true left out *)
skipsNotification_noParent(parentComment) == ~parentComment.exists

(* !parentComment || parentComment.receive_notification !== true *)
skipsNotification(parentComment) ==
  ~parentComment.exists \/ parentComment.receive_notification # TRUE

InitNotify ==
  /\ doc = Null
  /\ feedHtml = Unset
  /\ plainHtml = Unset
  /\ rssHtml = Unset
  /\ textOut = Unset
  /\ pageDom = Unset
  /\ hl = <<>>
  /\ first = [feed |-> Unset, page |-> Unset, remounted |-> FALSE]
  /\ feedIn = [route |-> "none"]
  /\ feedContent = Unset
  /\ feedXml = Unset
  /\ ViewsIdle
  /\ TokensIdle
  /\ CommentsIdle
  /\ \E flags \in [1..MaxCommentId -> BOOLEAN] :
       comments = [c \in 1..MaxCommentId |->
                 [exists |-> TRUE, user_id |-> ownerOf(c), receive_notification |-> flags[c]]]
  /\ pages = {}
  /\ notices = [n \in 1..MaxNotices |->
                  [pc |-> "idle", replyToId |-> 0, key |-> <<>>, unsubscribeToken |-> <<>>]]
  /\ journal = <<>>
  /\ SwitcherIdle
  /\ ArticlesIdle

(* What an unsubscribe action returned, out, is done: the table is as the   *)
(* action left it, and a success for a comment id is in the journal         *)
Unsubscribed(out) ==
  /\ comments' = out.table
  /\ journal' = IF out.success /\ out.commentId \in 1..MaxCommentId
                THEN Append(journal, [event |-> "unsubscribed", id |-> out.commentId,
                                      n |-> 0, token |-> <<>>])
                ELSE journal

(* A POST to /unsubscribe *)
UnsubscribeAction(form, error) ==
  /\ Len(journal) < MaxEvents
  /\ Unsubscribed(unsubscribe_action(form, error, comments))
  /\ UNCHANGED <<pages, notices, rendVars, feedVars, viewVars, tokenVars, commentVars, switcherVars, articleVars>>

(* A POST to /:lang/unsubscribe *)
LangUnsubscribeAction(form, env, error) ==
  /\ Len(journal) < MaxEvents
  /\ Unsubscribed(lang_unsubscribe_action(form, env, error, comments))
  /\ UNCHANGED <<pages, notices, rendVars, feedVars, viewVars, tokenVars, commentVars, switcherVars, articleVars>>

(* The loader of the profile route renders a page for the account of the    *)
(* session; it redirects or throws for every other request                  *)
ProfileLoader(session, userId) ==
  /\ session # ""
  /\ session = userId
  /\ selectUser(userId).exists
  /\ pages' = pages \cup toggleForms(comments, selectUser(userId).id)
  /\ UNCHANGED <<comments, notices, journal, rendVars, feedVars, viewVars, tokenVars, commentVars, switcherVars, articleVars>>

(* A POST to the profile route *)
ProfileAction(session, userId, form, error) ==
  /\ Len(journal) < MaxEvents
  /\ LET out == profile_action(session, userId, form, error, comments)
     IN /\ comments' = out.table
        /\ journal' = IF out.returned = "success"
                      THEN Append(journal, [event |-> out.wrote, id |-> out.commentId,
                                            n |-> 0, token |-> <<>>])
                      ELSE journal
  /\ UNCHANGED <<pages, notices, rendVars, feedVars, viewVars, tokenVars, commentVars, switcherVars, articleVars>>

(* sendCommentReplyNotification is called for a reply to replyToId, and     *)
(* runs to its first await                                                  *)
SendCommentReplyNotification(n, replyToId, env) ==
  /\ Len(journal) < MaxEvents
  /\ notices[n].pc = "idle"
  /\ notices' = [notices EXCEPT ![n] =
                   [pc |-> IF replyToId = 0 \/ env.RESEND_KEY = <<>> THEN "returned"
                           ELSE "parentComment",
                    replyToId |-> replyToId, key |-> env.RESEND_KEY,
                    unsubscribeToken |-> <<>>]]
  /\ journal' = Append(journal, [event |-> "called", id |-> replyToId, n |-> n,
                                 token |-> <<>>])
  /\ UNCHANGED <<comments, pages, rendVars, feedVars, viewVars, tokenVars, commentVars, switcherVars, articleVars>>

(* The select of the parent comment answers; the recipient resolves to an   *)
(* address or to null; the token of the unsubscribe link is made            *)
ParentCommentReturns(n, error, recipientEmail) ==
  /\ notices[n].pc = "parentComment"
  /\ LET parentComment == selectComment(comments, notices[n].replyToId)
     IN notices' = [notices EXCEPT ![n] =
          IF error \/ skipsNotification(parentComment) \/ ~recipientEmail
          THEN [@ EXCEPT !.pc = "returned"]
          ELSE [@ EXCEPT !.pc = "send",
                         !.unsubscribeToken =
                            generateUnsubscribeToken(notices[n].replyToId, notices[n].key,
                                                     dateNow)]]
  /\ UNCHANGED <<comments, pages, journal, rendVars, feedVars, viewVars, tokenVars, commentVars, switcherVars, articleVars>>

(* resend.emails.send answers: the email went out, or an error is logged *)
ResendSends(n, error) ==
  /\ notices[n].pc = "send"
  /\ notices' = [notices EXCEPT ![n].pc = "returned"]
  /\ journal' = IF error THEN journal
                ELSE Append(journal, [event |-> "email", id |-> notices[n].replyToId,
                                      n |-> n, token |-> notices[n].unsubscribeToken])
  /\ UNCHANGED <<comments, pages, rendVars, feedVars, viewVars, tokenVars, commentVars, switcherVars, articleVars>>

NextNotify ==
  \/ \E form \in UnsubscribeForms, error \in BOOLEAN : UnsubscribeAction(form, error)
  \/ \E form \in UnsubscribeForms, env \in Envs, error \in BOOLEAN :
       LangUnsubscribeAction(form, env, error)
  \/ \E session \in Sessions, userId \in {"a", "b"} : ProfileLoader(session, userId)
  \/ \E session \in Sessions, userId \in {"a", "b"}, form \in ProfileForms,
        error \in BOOLEAN : ProfileAction(session, userId, form, error)
  \/ \E n \in 1..MaxNotices, replyToId \in 0..MaxCommentId, env \in Envs :
       SendCommentReplyNotification(n, replyToId, env)
  \/ \E n \in 1..MaxNotices, error \in BOOLEAN, recipientEmail \in BOOLEAN :
       ParentCommentReturns(n, error, recipientEmail)
  \/ \E n \in 1..MaxNotices, error \in BOOLEAN : ResendSends(n, error)

SpecNotify == InitNotify /\ [][NextNotify]_vars

----------------------------------------------------------------------------
(* getLanguageSwitcherLinks of src/app/utils/getLanguageSwitcherLinks.ts.   *)
(* Texts are sequences of characters; an optional argument is a record      *)
(* that says whether it is given; the Map is the sequence of its entries in *)
(* the order of their insertion.  switcherCall is the call and              *)
(* switcherLinks what it returned.                                          *)

MaxAvailable == 2

(* text.startsWith(searchString) *)
startsWith(text, searchString) ==
  /\ Len(text) >= Len(searchString)
  /\ SubSeq(text, 1, Len(searchString)) = searchString

(* array.includes(item) *)
includes(array, item) == \E i \in 1..Len(array) : array[i] = item

(* map.set(key, value) *)
Map_set(map, key, value) ==
  IF \E i \in 1..Len(map) : map[i].key = key
  THEN [i \in 1..Len(map) |-> IF map[i].key = key THEN [key |-> key, value |-> value]
                              ELSE map[i]]
  ELSE Append(map, [key |-> key, value |-> value])

(* isDynamicContent without its third prefix *)
isDynamicContent_noThought(currentPath) ==
  \/ startsWith(currentPath, <<"a", "r", "t", "i", "c", "l", "e", "/">>)
  \/ startsWith(currentPath, <<"a", "l", "b", "u", "m", "/">>)

isDynamicContent(currentPath) ==
  \/ startsWith(currentPath, <<"a", "r", "t", "i", "c", "l", "e", "/">>)
  \/ startsWith(currentPath, <<"a", "l", "b", "u", "m", "/">>)
  \/ startsWith(currentPath, <<"t", "h", "o", "u", "g", "h", "t", "/">>)

DefaultLangs == <<<<"z", "h">>, <<"e", "n">>, <<"j", "p">>>>

getLanguageSwitcherLinks(currentLang, currentPath, availableLangs, allLangs) ==
  LET langs == IF allLangs.given THEN allLangs.langs ELSE DefaultLangs
      targetLangs == SelectSeq(langs, LAMBDA lang : lang # currentLang)
      link(lang) ==
        IF isDynamicContent(currentPath) /\ availableLangs.given
           /\ Len(availableLangs.langs) > 0
        THEN IF includes(availableLangs.langs, lang)
             THEN <<"/">> \o lang \o <<"/">> \o currentPath
             ELSE <<"/">> \o lang
        ELSE IF currentPath = <<>>
        THEN <<"/">> \o lang
        ELSE <<"/">> \o lang \o <<"/">> \o currentPath
      RECURSIVE loop(_, _)
      loop(i, map) == IF i > Len(targetLangs) THEN map
                      ELSE loop(i + 1, Map_set(map, targetLangs[i], link(targetLangs[i])))
  IN loop(1, <<>>)

(* The arguments of the calls *)
LangCodes == {<<"z", "h">>, <<"e", "n">>, <<"j", "p">>, <<"f", "r">>}
Paths ==
  {<<>>, <<"a", "b", "o", "u", "t">>, <<"a", "r", "t", "i", "c", "l", "e">>, <<"a", "r", "t", "i", "c", "l", "e", "/", "a">>, <<"a", "l", "b", "u", "m", "/", "a">>, <<"t", "h", "o", "u", "g", "h", "t", "/", "a">>, <<"x", "a", "r", "t", "i", "c", "l", "e", "/", "a">>,
   <<"a", "r", "t", "i", "c", "l", "e", "s", "/", "a">>}
RECURSIVE LangLists(_)
LangLists(n) ==
  IF n = 0 THEN {<<>>}
  ELSE LangLists(n - 1)
       \cup {Append(list, lang) : list \in LangLists(n - 1), lang \in LangCodes}
OptionalLangLists(n) ==
  {[given |-> FALSE, langs |-> <<>>]} \cup {[given |-> TRUE, langs |-> list] : list \in LangLists(n)}
AllLangs ==
  {[given |-> FALSE, langs |-> <<>>],
   [given |-> TRUE, langs |-> <<<<"z", "h">>, <<"e", "n">>>>],
   [given |-> TRUE, langs |-> <<<<"e", "n">>, <<"z", "h">>, <<"e", "n">>>>]}

InitSwitcher ==
  /\ doc = Null
  /\ feedHtml = Unset
  /\ plainHtml = Unset
  /\ rssHtml = Unset
  /\ textOut = Unset
  /\ pageDom = Unset
  /\ hl = <<>>
  /\ first = [feed |-> Unset, page |-> Unset, remounted |-> FALSE]
  /\ feedIn = [route |-> "none"]
  /\ feedContent = Unset
  /\ feedXml = Unset
  /\ ViewsIdle
  /\ TokensIdle
  /\ CommentsIdle
  /\ NotifyIdle
  /\ switcherCall \in [currentLang : LangCodes, currentPath : Paths,
                       availableLangs : OptionalLangLists(MaxAvailable),
                       allLangs : AllLangs]
  /\ switcherLinks = [called |-> FALSE, links |-> <<>>]
  /\ ArticlesIdle

CallGetLanguageSwitcherLinks ==
  /\ ~switcherLinks.called
  /\ switcherLinks' =
       [called |-> TRUE,
        links |-> getLanguageSwitcherLinks(switcherCall.currentLang, switcherCall.currentPath,
                                           switcherCall.availableLangs,
                                           switcherCall.allLangs)]
  /\ UNCHANGED <<switcherCall, rendVars, feedVars, viewVars, tokenVars, commentVars, notifyVars, articleVars>>

NextSwitcher == CallGetLanguageSwitcherLinks

SpecSwitcher == InitSwitcher /\ [][NextSwitcher]_vars

----------------------------------------------------------------------------
(* The article page: its loader and its component, in the two copies of    *)
(* the route (src/app/routes/$lang.article.$slug.tsx, src/unnamed/part_011) *)
(*                                                                         *)
(* articleRow is the row the loader selects, articleSession whether the    *)
(* request carries a session.  Of the loader's response only the article   *)
(* is kept: the neighbours, the comments, the languages and the structured *)
(* data are computed without reading content_json.  The page is the part   *)
(* of the component's output that is computed from content_json: the       *)
(* ContentContainer element with its content prop, or the lock panel and   *)
(* the hidden copy next to it.                                             *)

ArticleBodies == TextDocs \cup NotDocs

(* $lang.article.$slug.tsx: the loader *)
lang_article_slug_loader(row, hasSession) ==
  [article |-> IF row.is_premium /\ ~hasSession
               THEN [row EXCEPT !.content_json = Null]
               ELSE row]

(* part_011: the loader *)
article_loader(row, hasSession) ==
  [article |-> row]

canViewContent(article, hasSession) ==
  ~(article.is_premium = TRUE) \/ hasSession

(* $lang.article.$slug.tsx: the body column of ArticleDetail *)
lang_article_slug_ArticleDetail(data, hasSession) ==
  IF canViewContent(data.article, hasSession)
  THEN IF Truthy(data.article.content_json)
       THEN Ok([view |-> "content", content |-> data.article.content_json,
                hidden |-> <<>>])
       ELSE Ok([view |-> "empty", content |-> Null, hidden |-> <<>>])
  ELSE Ok([view |-> "locked", content |-> Null, hidden |-> <<>>])

ArticleDetail_page(article, hasSession, plainArticleHtml) ==
  IF ~plainArticleHtml.ok THEN Thrown
  ELSE IF canViewContent(article, hasSession)
  THEN IF Truthy(article.content_json)
       THEN Ok([view |-> "content", content |-> article.content_json, hidden |-> <<>>])
       ELSE Ok([view |-> "empty", content |-> Null, hidden |-> <<>>])
  ELSE Ok([view |-> "locked", content |-> Null,
           hidden |-> IF Len(plainArticleHtml.v) > 0 THEN plainArticleHtml.v ELSE <<>>])

(* part_011: the body column of ArticleDetail *)
ArticleDetail(data, hasSession) ==
  ArticleDetail_page(data.article, hasSession,
                     renderPlainArticleHtml(data.article.content_json))

InitArticles ==
  /\ doc = Null
  /\ feedHtml = Unset
  /\ plainHtml = Unset
  /\ rssHtml = Unset
  /\ textOut = Unset
  /\ pageDom = Unset
  /\ hl = <<>>
  /\ first = [feed |-> Unset, page |-> Unset, remounted |-> FALSE]
  /\ feedIn = [route |-> "none"]
  /\ feedContent = Unset
  /\ feedXml = Unset
  /\ ViewsIdle
  /\ TokensIdle
  /\ CommentsIdle
  /\ NotifyIdle
  /\ SwitcherIdle
  /\ articleRow \in [is_premium : BOOLEAN, content_json : ArticleBodies]
  /\ articleSession \in BOOLEAN
  /\ articleData = [route |-> "none"]
  /\ articlePage = [route |-> "none"]

LangArticleSlugLoader ==
  /\ articleData.route = "none"
  /\ articleData' = [route |-> "lang",
                     data |-> lang_article_slug_loader(articleRow, articleSession)]
  /\ UNCHANGED <<articleRow, articleSession, articlePage, rendVars, feedVars, viewVars,
                 tokenVars, commentVars, notifyVars, switcherVars>>

ArticleLoader ==
  /\ articleData.route = "none"
  /\ articleData' = [route |-> "detail",
                     data |-> article_loader(articleRow, articleSession)]
  /\ UNCHANGED <<articleRow, articleSession, articlePage, rendVars, feedVars, viewVars,
                 tokenVars, commentVars, notifyVars, switcherVars>>

LangArticleSlugRender ==
  /\ articleData.route = "lang"
  /\ articlePage.route = "none"
  /\ articlePage' = [route |-> "lang",
                     page |-> lang_article_slug_ArticleDetail(articleData.data,
                                                              articleSession)]
  /\ UNCHANGED <<articleRow, articleSession, articleData, rendVars, feedVars, viewVars,
                 tokenVars, commentVars, notifyVars, switcherVars>>

ArticleRender ==
  /\ articleData.route = "detail"
  /\ articlePage.route = "none"
  /\ articlePage' = [route |-> "detail",
                     page |-> ArticleDetail(articleData.data, articleSession)]
  /\ UNCHANGED <<articleRow, articleSession, articleData, rendVars, feedVars, viewVars,
                 tokenVars, commentVars, notifyVars, switcherVars>>

NextArticles ==
  \/ LangArticleSlugLoader
  \/ ArticleLoader
  \/ LangArticleSlugRender
  \/ ArticleRender

SpecArticles == InitArticles /\ [][NextArticles]_vars

----------------------------------------------------------------------------
(* Reading an output *)

SetOf(r) == r # Unset
Pieces(r) == IF SetOf(r) /\ r.ok THEN r.v ELSE <<>>
FromField(html, field) == SelectSeq(html, LAMBDA p: p.src = field)
Has(html, c) == \E i \in 1..Len(html) : html[i].c = c /\ html[i].src = "lit"

Entities == {"&amp;", "&lt;", "&gt;", "&quot;", "&#039;", "&#39;"}
Decode(c) ==
  CASE c = "&amp;" -> "&"
    [] c = "&lt;" -> "<"
    [] c = "&gt;" -> ">"
    [] c = "&quot;" -> "\""
    [] c \in {"&#039;", "&#39;"} -> "'"
    [] OTHER -> c
DecodedText(r) ==
  [i \in 1..Len(FromField(Pieces(r), "text")) |-> Decode(FromField(Pieces(r), "text")[i].c)]

(* The characters of the text nodes of a document, in document order *)
RECURSIVE TextOf(_)
TextOf(node) ==
  IF node.t # "obj" THEN <<>>
  ELSE IF Prop(node, "text").t = "str"
       THEN [i \in 1..Len(Prop(node, "text").v) |-> Prop(node, "text").v[i].c]
  ELSE IF Prop(node, "content").t = "arr"
       THEN ConcatAll([i \in 1..Len(Prop(node, "content").v) |->
                        Ok(TextOf(Prop(node, "content").v[i]))]).v
  ELSE <<>>

OnlyBlock == First(Prop(doc, "content"))
OnlyBlockIs(type) ==
  /\ Prop(doc, "content").t = "arr"
  /\ Len(Prop(doc, "content").v) = 1
  /\ IsStr(Prop(OnlyBlock, "type"), type)

----------------------------------------------------------------------------
(* C1: in feed output (contentToHtml, renderRssArticleHtml) and in page     *)
(* output (renderPlainArticleHtml), a character & < > " ' that comes from   *)
(* the text field of a text node is never in the output as the raw          *)
(* character, only as its entity; renderPlainArticleHtml and                *)
(* renderRssArticleHtml emit the text of every text node, so there the      *)
(* entities decode to exactly the document's text.                          *)
TextEscapedIn(r) ==
  \A i \in 1..Len(Pieces(r)) :
    Pieces(r)[i].src = "text" =>
      /\ Pieces(r)[i].c \notin Special
      /\ Pieces(r)[i].c \in Entities \/ Pieces(r)[i].c \in Chars \/ Pieces(r)[i].c \in {"b", "1", "2", "3", "4"}
C1_TextEscaped ==
  /\ TextEscapedIn(feedHtml)
  /\ TextEscapedIn(plainHtml)
  /\ TextEscapedIn(rssHtml)
  /\ doc \in TextDocs /\ SetOf(feedHtml) => DecodedText(feedHtml) = TextOf(doc)
  /\ SetOf(plainHtml) /\ plainHtml.ok => DecodedText(plainHtml) = TextOf(doc)
  /\ SetOf(rssHtml) /\ rssHtml.ok => DecodedText(rssHtml) = TextOf(doc)

C1_Witness ==
  /\ TextOf(doc) = SampleText
  /\ \A r \in {feedHtml, plainHtml, rssHtml} :
       /\ SetOf(r) /\ r.ok
       /\ \A e \in {"&amp;", "&lt;", "&gt;", "&quot;"} :
            \E i \in 1..Len(r.v) : r.v[i] = [c |-> e, src |-> "text"]
  /\ \E i \in 1..Len(feedHtml.v) : feedHtml.v[i] = [c |-> "&#039;", src |-> "text"]
  /\ \E i \in 1..Len(plainHtml.v) : plainHtml.v[i] = [c |-> "&#39;", src |-> "text"]

(* C2: every author-supplied value placed in an HTML attribute (link href,  *)
(* target, rel, code-block language, image alt) is HTML-escaped first, in   *)
(* contentToHtml as in renderPlainArticleHtml and renderRssArticleHtml.     *)
AttrFields == {"href", "target", "rel", "language", "alt"}
AttrsEscapedIn(r) ==
  \A i \in 1..Len(Pieces(r)) :
    Pieces(r)[i].src \in AttrFields => Pieces(r)[i].c \notin Special
C2_AttrsEscaped ==
  AttrsEscapedIn(feedHtml) /\ AttrsEscapedIn(plainHtml) /\ AttrsEscapedIn(rssHtml)

(* C3: in page mode only the embed node's code attribute is inserted as raw *)
(* HTML; in every state of a CodeBlock (loading, highlighted, failed) the   *)
(* code block's text is in the DOM escaped or as highlighter output.        *)
C3_OnlyEmbedIsRaw ==
  \A i \in 1..Len(Pieces(pageDom)) :
    Pieces(pageDom)[i].src \notin {"lit", "num", "code"} =>
      Pieces(pageDom)[i].c \notin Special

(* C4: contentToHtml, renderPlainArticleHtml, renderRssArticleHtml and      *)
(* getTextContent return a string for every JSON value and never throw.     *)
C4_NeverThrows ==
  \A r \in {feedHtml, plainHtml, rssHtml, textOut} : SetOf(r) => r.ok

(* C5: given null, an object without content, or an object whose content   *)
(* is not an array, contentToHtml and ContentContainer return the fixed     *)
(* "no content" placeholder paragraph and do not throw.                     *)
NotADocument(d) ==
  \/ d = Null
  \/ d.t = "obj" /\ "content" \notin DOMAIN d.v
  \/ d.t = "obj" /\ "content" \in DOMAIN d.v /\ d.v["content"].t # "arr"
C5_Placeholder ==
  NotADocument(doc) =>
    /\ SetOf(feedHtml) => feedHtml.ok /\ Flat(feedHtml.v) = "<p>{no content}</p>"
    /\ SetOf(pageDom) => pageDom.ok /\ Flat(pageDom.v) = "<div><p>{no content}</p></div>"

C5_Witness ==
  /\ doc = Obj([content |-> Str(Lit("not-an-array"))])
  /\ SetOf(feedHtml) /\ feedHtml.ok
  /\ SetOf(pageDom) /\ pageDom.ok

(* C6: the strings of renderPlainArticleHtml and renderRssArticleHtml for   *)
(* one document are equal once every style= and class= attribute is         *)
(* removed from both.                                                       *)
RECURSIVE SkipValue(_, _), StripFrom(_, _)
SkipValue(html, i) ==
  IF i > Len(html) THEN i
  ELSE IF html[i].c = "\"" THEN i + 1
  ELSE SkipValue(html, i + 1)
StripFrom(html, i) ==
  IF i > Len(html) THEN <<>>
  ELSE IF html[i].src = "lit" /\ html[i].c \in {" style=\"", " class=\""}
       THEN StripFrom(html, SkipValue(html, i + 1))
  ELSE <<html[i]>> \o StripFrom(html, i + 1)
Strip(html) == StripFrom(html, 1)
C6_SameStructure ==
  SetOf(plainHtml) /\ SetOf(rssHtml) =>
    /\ plainHtml.ok = rssHtml.ok
    /\ Flat(Strip(Pieces(plainHtml))) = Flat(Strip(Pieces(rssHtml)))

C6_Witness ==
  /\ SetOf(plainHtml) /\ plainHtml.ok
  /\ SetOf(rssHtml) /\ rssHtml.ok
  /\ Has(plainHtml.v, "<a") /\ Has(plainHtml.v, "<strong>")
  /\ Has(rssHtml.v, " style=\"")
  /\ Flat(plainHtml.v) # Flat(rssHtml.v)
  /\ Flat(Strip(plainHtml.v)) = Flat(Strip(rssHtml.v))

(* C7: the page dispatcher (Node, TextNode) and the feed dispatcher         *)
(* (renderNode, renderTextNode) cover the same node kinds and mark kinds:   *)
(* a block, a mark or a line break that produces an element in one          *)
(* produces the corresponding element in the other.                         *)
MarkTags == {"a", "strong", "em", "del", "mark", "code", "sup"}
MarkTagsIn(html) == {m \in MarkTags : Has(html, "<" \o m)}
HasBreak(html) == Has(html, "<br />") \/ Has(html, "<br/>")
C7_SameCoverage ==
  SetOf(pageDom) /\ pageDom.ok /\ SetOf(feedHtml) /\ feedHtml.ok =>
    /\ (Len(pageDom.v) = 0) = (Len(feedHtml.v) = 0)
    /\ MarkTagsIn(pageDom.v) = MarkTagsIn(feedHtml.v)
    /\ HasBreak(pageDom.v) = HasBreak(feedHtml.v)

(* C8: a heading whose level is greater than 6 renders as a level-6         *)
(* heading, and a heading whose level is 0 or absent as a level-2 heading,  *)
(* in every renderer.                                                       *)
RenderedLevels(r) == {n \in 1..6 : Has(Pieces(r), "<h" \o ToString(n))}
DocLevel == OptProp(Prop(OnlyBlock, "attrs"), "level")
C8_HeadingLevel ==
  OnlyBlockIs("heading") =>
    \A r \in {feedHtml, plainHtml, rssHtml, pageDom} :
      SetOf(r) =>
        /\ DocLevel.t = "num" /\ DocLevel.v > 6 => RenderedLevels(r) = {6}
        /\ DocLevel = Undef \/ DocLevel = Num(0) => RenderedLevels(r) = {2}

(* C9: a table with n >= 1 child rows renders exactly one header row, from  *)
(* its first child, and n - 1 body rows from the remaining children in      *)
(* their order, whatever types the rows or cells declare.                   *)
RowOpen == {"<tr", "<tr>"}
HeaderCellOpen == {"<th", "<th>"}
BodyCellOpen == {"<td", "<td>"}
RECURSIVE KindAfter(_, _), RowKindsFrom(_, _)
KindAfter(html, j) ==
  IF j > Len(html) \/ html[j].c \in RowOpen THEN "empty"
  ELSE IF html[j].c \in HeaderCellOpen THEN "header"
  ELSE IF html[j].c \in BodyCellOpen THEN "body"
  ELSE KindAfter(html, j + 1)
RowKindsFrom(html, i) ==
  IF i > Len(html) THEN <<>>
  ELSE IF html[i].c \in RowOpen THEN <<KindAfter(html, i + 1)>> \o RowKindsFrom(html, i + 1)
  ELSE RowKindsFrom(html, i + 1)
RowKinds(r) == RowKindsFrom(Pieces(r), 1)
C9_TableRows ==
  OnlyBlockIs("table") /\ Prop(OnlyBlock, "content").t = "arr"
    /\ Len(Prop(OnlyBlock, "content").v) >= 1
    /\ (\A i \in 1..Len(Prop(OnlyBlock, "content").v) :
          Prop(Prop(OnlyBlock, "content").v[i], "content").t = "arr"
          /\ Len(Prop(Prop(OnlyBlock, "content").v[i], "content").v) = 2
          /\ \A j \in 1..2 :
               Prop(Prop(Prop(OnlyBlock, "content").v[i], "content").v[j], "content").t = "arr") =>
    \A r \in {feedHtml, plainHtml, rssHtml, pageDom} :
      SetOf(r) =>
        /\ r.ok
        /\ RowKinds(r) = [i \in 1..Len(Prop(OnlyBlock, "content").v) |->
                            IF i = 1 THEN "header" ELSE "body"]
        /\ DecodedText(r) = TextOf(doc)

(* C10: an orderedList renders a start attribute exactly when attrs.start   *)
(* is a number greater than 1, and then with that number.                   *)
StartValue(html) ==
  LET at == {i \in 1..Len(html) : html[i].c = " start=\"" /\ html[i].src = "lit"}
  IN {html[i + 1].c : i \in at}
DocStart == OptProp(Prop(OnlyBlock, "attrs"), "start")
C10_StartAttr ==
  OnlyBlockIs("orderedList") =>
    \A r \in {feedHtml, plainHtml, rssHtml, pageDom} :
      SetOf(r) /\ r.ok =>
        StartValue(r.v) = IF DocStart.t = "num" /\ DocStart.v > 1
                          THEN {ToString(DocStart.v)} ELSE {}

(* C11: an image node whose attrs hold no string storage_key renders as the *)
(* empty string, with no element and no fallback text, and does not throw,  *)
(* in every renderer.                                                       *)
NoStorageKey == OptProp(Prop(OnlyBlock, "attrs"), "storage_key").t # "str"
C11_ImageWithoutKey ==
  OnlyBlockIs("image") /\ NoStorageKey =>
    \A r \in {feedHtml, plainHtml, rssHtml, pageDom} :
      SetOf(r) => r.ok /\ r.v = <<>>

(* C12: rendering is a pure function of the document: a second feed build   *)
(* returns what the first returned, a second mount of the page renders what *)
(* the first mount rendered, in every interleaving with the other           *)
(* renderers, and no rendering step changes the document (the marks array   *)
(* of each text node included).                                             *)
DocMarks == Prop(First(Prop(OnlyBlock, "content")), "marks")
C12_SecondPassSame ==
  /\ first.feed # Unset => feedHtml = first.feed
  /\ first.remounted /\ (\A k \in DOMAIN hl : hl[k].isLoading) => pageDom = first.page
RECURSIVE PlainTextOf(_)
PlainTextOf(children) ==
  IF children.t # "arr" THEN ""
  ELSE LET of(node) ==
             IF node.t \notin {"obj", "arr"} THEN ""
             ELSE IF IsStr(Prop(node, "type"), "text")
                  THEN (IF Prop(node, "text").t = "str" THEN Flat(Prop(node, "text").v)
                        ELSE IF Prop(node, "text").t = "num" THEN ToString(Prop(node, "text").v)
                        ELSE "")
             ELSE IF IsStr(Prop(node, "type"), "hardBreak") THEN "\n"
             ELSE PlainTextOf(Prop(node, "content"))
           join[i \in 0..Len(children.v)] ==
             IF i = 0 THEN "" ELSE join[i - 1] \o of(children.v[i])
       IN join[Len(children.v)]
BreakExample ==
  DocOf(<<Elem("paragraph", Undef,
               Arr(<<Text(<<"a">>, Arr(<<Obj([type |-> T("bold")])>>)),
                     Elem("hardBreak", Undef, Undef), Text(<<"b">>, Undef)>>))>>)
C13_PlainText ==
  textOut # Unset =>
    /\ textOut.ok
    /\ Flat(textOut.v) = PlainTextOf(Prop(doc, "content"))
    /\ doc = BreakExample => Flat(textOut.v) = "a\nb"

C13_Witness ==
  /\ doc = BreakExample
  /\ textOut # Unset /\ textOut.ok
  /\ Len(textOut.v) = 3 /\ textOut.v[2].c = "\n"

(* C14: a node of a type the dispatcher does not recognise renders as the   *)
(* concatenation of its rendered children when it has content and as the    *)
(* empty string otherwise, and never throws, in renderNode (contentToHtml)  *)
(* as in renderTipTapNode and renderRssTipTapNode.                          *)
UnknownKinds == {"callout"}
ChildrenOfOnlyBlock ==
  DocOf(IF Prop(OnlyBlock, "content").t = "arr" THEN Prop(OnlyBlock, "content").v ELSE <<>>)
C14_Feed ==
  (\E k \in UnknownKinds : OnlyBlockIs(k)) /\ feedHtml # Unset =>
    feedHtml.ok /\ feedHtml = contentToHtml(ChildrenOfOnlyBlock, DefaultPrefix)
C14_Article ==
  (\E k \in UnknownKinds : OnlyBlockIs(k)) =>
    /\ plainHtml # Unset =>
         plainHtml.ok /\ plainHtml = renderPlainArticleHtml(ChildrenOfOnlyBlock)
    /\ rssHtml # Unset =>
         rssHtml.ok /\ rssHtml = renderRssArticleHtml(ChildrenOfOnlyBlock)
C14_UnknownKind == C14_Feed /\ C14_Article

(* C15: a hardBreak among the inline children of a paragraph renders as     *)
(* exactly one line-break element with no content, in feed mode             *)
(* (contentToHtml) as in page mode.                                         *)
BreakElements(r) ==
  Len(SelectSeq(Pieces(r), LAMBDA p : p.src = "lit" /\ p.c \in {"<br />", "<br/>", "<br"}))
BreaksInOnlyBlock ==
  Len(SelectSeq(Prop(OnlyBlock, "content").v,
                LAMBDA n : n.t = "obj" /\ IsStr(Prop(n, "type"), "hardBreak")))
C15_Break(r) ==
  OnlyBlockIs("paragraph") /\ Prop(OnlyBlock, "content").t = "arr"
    /\ BreaksInOnlyBlock > 0 /\ r # Unset =>
      r.ok /\ BreakElements(r) = BreaksInOnlyBlock
C15_Feed == C15_Break(feedHtml)
C15_Page == C15_Break(pageDom) /\ C15_Break(plainHtml) /\ C15_Break(rssHtml)
C15_HardBreak == C15_Feed /\ C15_Page

(* C16: the entry content inside an item's content:encoded CDATA section    *)
(* cannot close that section early, in the site feed as in the article      *)
(* feed: reading the element as an XML reader does (a section runs from     *)
(* its opening to the first ]]> after it) gives back exactly the content    *)
(* string of the entry.                                                     *)
RECURSIVE ReadElement(_, _, _)
ReadElement(xml, i, inside) ==
  IF i > Len(xml) THEN <<>>
  ELSE IF inside
       THEN IF i + 2 <= Len(xml) /\ xml[i].c = "]" /\ xml[i + 1].c = "]" /\ xml[i + 2].c = ">"
            THEN ReadElement(xml, i + 3, FALSE)
            ELSE <<xml[i].c>> \o ReadElement(xml, i + 1, TRUE)
  ELSE IF xml[i] \in {[c |-> "<![CDATA[", src |-> "lit"]}
       THEN ReadElement(xml, i + 1, TRUE)
  ELSE IF xml[i].src = "lit" /\ xml[i].c \in {"<content:encoded>", "</content:encoded>", " "}
       THEN ReadElement(xml, i + 1, FALSE)
  ELSE <<"{outside}", xml[i].c>> \o ReadElement(xml, i + 1, FALSE)
CharsOf(s) == [i \in 1..Len(s) |-> s[i].c]
HasTerminator(s) ==
  \E i \in 1..Len(s) - 2 : s[i].c = "]" /\ s[i + 1].c = "]" /\ s[i + 2].c = ">"
C16_CdataIntact ==
  feedXml # Unset /\ feedXml.ok /\ Len(feedXml.v) > 0 =>
    ReadElement(feedXml.v, 1, FALSE) = CharsOf(feedContent.v)

C16_Witness ==
  /\ feedIn.route = "rss"
  /\ feedXml # Unset /\ feedXml.ok
  /\ HasTerminator(feedContent.v)
  /\ Len(feedXml.v) > Len(feedContent.v) + 4

(* C17: for one browser storage and one (contentType, contentId), the RPC   *)
(* increments the page-view counter at most once in any period of           *)
(* VIEW_EXPIRY_HOURS hours, whatever the interleaving of the calls of       *)
(* trackPageView.                                                           *)
C17_OncePerDay ==
  \A i, j \in DOMAIN pageViews :
    i < j => pageViews[j] - pageViews[i] >= VIEW_EXPIRY_HOURS

(* C18: verifyUnsubscribeToken returns a comment id only for the string     *)
(* generateUnsubscribeToken produced, with the secret it was produced with, *)
(* while its timestamp is no older than maxAgeMs, and then the id is that   *)
(* of the token; for every other string it returns null.  (It never throws: *)
(* the result is always a value.)                                           *)
C18_OnlyGenuine ==
  verified # Null /\ verified.result # Null =>
    /\ verified.token = issued.token
    /\ verified.secret = issued.secret
    /\ dateNow - issued.timestamp <=
         (IF issued.form = "json" THEN DefaultMaxAgeMs ELSE MAX_TOKEN_AGE_MS)
    /\ verified.result = Num(issued.commentId)

(* C19: the token generateUnsubscribeToken produced for a comment id, given *)
(* back with the same secret no later than maxAgeMs after it was produced   *)
(* (30 days for the JSON token, 7 days for the JWT), gives the comment id.  *)
C19_RoundTrip ==
  verified # Null /\ verified.token = issued.token /\ verified.secret = issued.secret
    /\ dateNow - issued.timestamp <=
         (IF issued.form = "json" THEN DefaultMaxAgeMs ELSE MAX_TOKEN_AGE_MS) =>
      verified.result = Num(issued.commentId)

C19_Witness ==
  /\ verified # Null /\ verified.token = issued.token /\ verified.secret = issued.secret
  /\ issued.form = "jwt"
  /\ dateNow - issued.timestamp = MAX_TOKEN_AGE_MS
  /\ verified.result = Num(issued.commentId)

(* C20: in the article and thought comment actions, a request without a     *)
(* session has a row in the comment table only if the siteverify response   *)
(* of that request reported success; when the response reported failure     *)
(* the action has returned the error result and the request has no row.     *)
C20_TurnstileFirst ==
  /\ \A i \in DOMAIN comment :
       ~requests[comment[i].request].session =>
         requests[comment[i].request].turnstile = Obj([success |-> Bool(TRUE)])
  /\ \A r \in DOMAIN requests :
       ~requests[r].session /\ Prop(requests[r].turnstile, "success") = Bool(FALSE) =>
         /\ requests[r].pc = "done" /\ requests[r].returned = "error"
         /\ \A i \in DOMAIN comment : comment[i].request # r

C20_Witness ==
  \E r, q \in DOMAIN requests :
    /\ ~requests[r].session /\ ~requests[q].session
    /\ requests[r].route = "article" /\ requests[q].route = "thought"
    /\ \E i \in DOMAIN comment : comment[i].request = r
    /\ Prop(requests[q].turnstile, "success") = Bool(FALSE)
    /\ requests[q].returned = "error"

(* C21: once an unsubscribe action has returned success for comment c, a    *)
(* call of sendCommentReplyNotification made afterwards for a reply to c    *)
(* sends no email, unless receive_notification of c was switched on again   *)
(* between the unsubscribe and the email.                                   *)
C21_NoEmailAfterUnsubscribe ==
  \A i \in 1..Len(journal), j \in 1..Len(journal), k \in 1..Len(journal) :
    (/\ i < j
     /\ j < k
     /\ journal[i].event = "unsubscribed"
     /\ journal[j].event = "called"
     /\ journal[j].id = journal[i].id
     /\ journal[k].event = "email"
     /\ journal[k].n = journal[j].n)
    => \E m \in (i + 1)..(k - 1) :
         journal[m].event = "enabled" /\ journal[m].id = journal[i].id

(* sendCommentReplyNotification, called after an unsubscribe of the comment *)
(* it is about, has read the comment and returned without an email          *)
C21_Witness ==
  \E i \in 1..Len(journal), j \in 1..Len(journal) :
    /\ i < j
    /\ journal[i].event = "unsubscribed"
    /\ journal[j].event = "called"
    /\ journal[j].id = journal[i].id
    /\ notices[journal[j].n].pc = "returned"
    /\ notices[journal[j].n].key # <<>>
    /\ comments[journal[i].id].exists
    /\ \A m \in 1..Len(journal) : journal[m].event \notin {"enabled", "email"}

(* verifyUnsubscribeToken accepts token for comment c under the key of the  *)
(* route; no token of the model is signed with the fallback key that        *)
(* /unsubscribe takes when RESEND_KEY is not set                            *)
AcceptsFor(token, secret, c) ==
  /\ token # <<>>
  /\ secret # <<>>
  /\ verifyUnsubscribeToken(token, secret, DefaultMaxAgeMs, dateNow) = Num(c)

(* C26: in every state, a POST to either unsubscribe route changes the row  *)
(* of a comment only when it carries a token that verifyUnsubscribeToken    *)
(* accepts for that comment id; a POST without such a token changes no row. *)
C26_TokenRequired ==
  \A form \in UnsubscribeForms, env \in Envs, error \in BOOLEAN, c \in 1..MaxCommentId :
    /\ unsubscribe_action(form, error, comments).table[c] # comments[c]
         => AcceptsFor(form.token, env.RESEND_KEY, c)
    /\ lang_unsubscribe_action(form, env, error, comments).table[c] # comments[c]
         => AcceptsFor(form.token, env.UNSUBSCRIBE_KEY, c)

(* The request is made by the account of the route parameter, and the       *)
(* comment the form names is a comment of that account's public.users row   *)
OwnRequest(session, userId, form) ==
  /\ session # ""
  /\ session = userId
  /\ selectUser(userId).exists
  /\ \E c \in DOMAIN comments :
       /\ c = parseInt(form.commentId)
       /\ comments[c].exists
       /\ comments[c].user_id = selectUser(userId).id

(* C28: in every state, a POST to the profile route that is not made by the *)
(* account of the :id parameter for a comment of that account's             *)
(* public.users row returns an error result and leaves every comment row as *)
(* it was; only such a POST deletes a comment or changes its                *)
(* receive_notification.                                                    *)
C28_OwnerOnly ==
  \A session \in Sessions, userId \in {"a", "b"}, form \in ProfileForms, error \in BOOLEAN :
    LET out == profile_action(session, userId, form, error, comments)
    IN /\ ~OwnRequest(session, userId, form)
            => out.returned = "error" /\ out.table = comments
       /\ out.table # comments => OwnRequest(session, userId, form)

(* The profile action has deleted a comment of the account "a", and a       *)
(* comment of another account is still there                                *)
C28_Witness ==
  /\ \E m \in 1..Len(journal) :
       journal[m].event = "deleted" /\ ownerOf(journal[m].id) = selectUser("a").id
  /\ \E c \in DOMAIN comments :
       comments[c].exists /\ comments[c].user_id # selectUser("a").id

(* C29: in every state, a toggle_notification form that a profile page has  *)
(* rendered, when its POST succeeds, leaves receive_notification of the     *)
(* comment equal to the negation of the value stored before the POST.       *)
C29_ToggleNegates ==
  \A session \in Sessions, userId \in {"a", "b"}, form \in pages, error \in BOOLEAN :
    LET out == profile_action(session, userId, form, error, comments)
        c == parseInt(form.commentId)
    IN form.intent = "toggle_notification" /\ out.returned = "success"
         => out.table[c].receive_notification = ~comments[c].receive_notification

(* C22: getLanguageSwitcherLinks returns a map whose keys are exactly the    *)
(* languages of allLangs other than currentLang; when the path starts with  *)
(* article/, album/ or thought/ and availableLangs is given and not empty,  *)
(* a language of availableLangs maps to /<lang>/<currentPath> and any other *)
(* language to /<lang>; otherwise every language maps to /<lang> when the   *)
(* path is empty and to /<lang>/<currentPath> when it is not.               *)
C22_SwitcherLinks ==
  switcherLinks.called =>
    LET map == switcherLinks.links
        path == switcherCall.currentPath
        all == IF switcherCall.allLangs.given THEN switcherCall.allLangs.langs
               ELSE DefaultLangs
        dynamic == \E prefix \in {<<"a", "r", "t", "i", "c", "l", "e", "/">>,
                                  <<"a", "l", "b", "u", "m", "/">>,
                                  <<"t", "h", "o", "u", "g", "h", "t", "/">>} :
                     startsWith(path, prefix)
        available == switcherCall.availableLangs.given
                     /\ switcherCall.availableLangs.langs # <<>>
        home(lang) == <<"/">> \o lang
        same(lang) == <<"/">> \o lang \o <<"/">> \o path
    IN /\ {map[i].key : i \in 1..Len(map)}
            = {all[i] : i \in 1..Len(all)} \ {switcherCall.currentLang}
       /\ \A i \in 1..Len(map), j \in 1..Len(map) : map[i].key = map[j].key => i = j
       /\ \A i \in 1..Len(map) :
            map[i].value =
              IF dynamic /\ available
              THEN IF includes(switcherCall.availableLangs.langs, map[i].key)
                   THEN same(map[i].key)
                   ELSE home(map[i].key)
              ELSE IF path = <<>> THEN home(map[i].key)
              ELSE same(map[i].key)

(* A call for a thought page with a language that has the thought and a     *)
(* language that has not                                                    *)
C22_Witness ==
  /\ switcherLinks.called
  /\ startsWith(switcherCall.currentPath, <<"t", "h", "o", "u", "g", "h", "t", "/">>)
  /\ switcherCall.availableLangs.given
  /\ \E i \in 1..Len(switcherLinks.links), j \in 1..Len(switcherLinks.links) :
       /\ includes(switcherCall.availableLangs.langs, switcherLinks.links[i].key)
       /\ ~includes(switcherCall.availableLangs.langs, switcherLinks.links[j].key)
       /\ switcherLinks.links[j].value = <<"/">> \o switcherLinks.links[j].key

(* C23: for a paragraph of one text node with the marks m1, ..., mn, the    *)
(* page renderer (TextNode) and the feed renderer (renderTextNode) both     *)
(* open the tag of m1 first, outermost, and the tag of mn last, innermost,  *)
(* so the two nest the tags in the same order.                              *)
CommonMarkTags == {"a", "strong", "em", "del", "mark", "code"}
MarkTagOf(mark) ==
  CASE IsStr(Prop(mark, "type"), "link") -> "a"
    [] IsStr(Prop(mark, "type"), "bold") -> "strong"
    [] IsStr(Prop(mark, "type"), "italic") -> "em"
    [] IsStr(Prop(mark, "type"), "strike") -> "del"
    [] IsStr(Prop(mark, "type"), "highlight") -> "mark"
    [] IsStr(Prop(mark, "type"), "code") -> "code"
    [] OTHER -> ""
AuthoredTags ==
  SelectSeq([i \in 1..Len(DocMarks.v) |-> MarkTagOf(DocMarks.v[i])], LAMBDA tag : tag # "")
OpenedTags(html) ==
  LET opens == SelectSeq(html, LAMBDA p : p.src = "lit"
                                          /\ \E tag \in CommonMarkTags : p.c = "<" \o tag)
  IN [i \in 1..Len(opens) |-> opens[i].c]
C23_MarkNesting ==
  /\ OnlyBlockIs("paragraph")
  /\ DocMarks.t = "arr"
  /\ SetOf(pageDom) /\ pageDom.ok
  /\ SetOf(feedHtml) /\ feedHtml.ok
  => /\ OpenedTags(feedHtml.v) = [i \in 1..Len(AuthoredTags) |-> "<" \o AuthoredTags[i]]
     /\ OpenedTags(pageDom.v) = [i \in 1..Len(AuthoredTags) |-> "<" \o AuthoredTags[i]]
     /\ OpenedTags(pageDom.v) = OpenedTags(feedHtml.v)

(* C24: an image node with an id and a string storage_key but no prefix of  *)
(* its own is rendered by contentToHtml, with a src that starts with the    *)
(* prefix the caller passed.                                                *)
C24_CallerPrefix ==
  /\ OnlyBlockIs("image")
  /\ OptProp(Prop(OnlyBlock, "attrs"), "id").t \in {"num", "str"}
  /\ OptProp(Prop(OnlyBlock, "attrs"), "storage_key").t = "str"
  /\ OptProp(Prop(OnlyBlock, "attrs"), "prefix").t = "undef"
  /\ SetOf(feedHtml)
  => /\ feedHtml.ok
     /\ \E i \in 1..Len(feedHtml.v) :
          /\ feedHtml.v[i] = Lit(" src=\"")[1]
          /\ i + Len(DefaultPrefix.v) <= Len(feedHtml.v)
          /\ SubSeq(feedHtml.v, i + 1, i + Len(DefaultPrefix.v)) = DefaultPrefix.v

(* C27: for a premium article requested without a session, the loader's    *)
(* response, and the page the component derives from it (the hidden copy   *)
(* included), are what they would be for any other stored body.            *)
LoadedBy(route, row, hasSession) ==
  IF route = "lang" THEN lang_article_slug_loader(row, hasSession)
  ELSE article_loader(row, hasSession)

RenderedBy(route, data, hasSession) ==
  IF route = "lang" THEN lang_article_slug_ArticleDetail(data, hasSession)
  ELSE ArticleDetail(data, hasSession)

C27_PremiumBodyHidden ==
  (articleRow.is_premium /\ ~articleSession) =>
    \A body \in ArticleBodies :
      LET other == [articleRow EXCEPT !.content_json = body]
      IN /\ articleData.route # "none" =>
              /\ articleData.data.article.content_json = Null
              /\ articleData.data = LoadedBy(articleData.route, other, articleSession)
         /\ articlePage.route # "none" =>
              articlePage.page =
                RenderedBy(articlePage.route,
                           LoadedBy(articlePage.route, other, articleSession),
                           articleSession)

(* C25: a finished call of trackPageView resolved to true exactly when the  *)
(* RPC answered without error and with a number; it then stored a view      *)
(* record for the content and called the onSuccess it was given once, with  *)
(* the count; when it resolved to false it stored no record and did not     *)
(* call onSuccess.                                                          *)
C25_TrueIffRecorded ==
  \A c \in DOMAIN calls :
    calls[c].pc = "done" =>
      /\ calls[c].result <=> calls[c].answer = "number"
      /\ calls[c].result =>
           /\ calls[c].record # Null
           /\ calls[c].record.contentType = "article"
           /\ calls[c].record.contentId = 1
           /\ calls[c].record.timestamp \in 0..now
           /\ calls[c].onSuccess # "none" =>
                /\ Len(calls[c].called) = 1
                /\ calls[c].called[1] \in 1..Len(pageViews)
      /\ ~calls[c].result =>
           /\ calls[c].record = Null
           /\ calls[c].called = <<>>

====
